---- MODULE Spec2Model ----
(***************************************************************************)
(* The repository reconciliation engine of app-report-devops-backend:      *)
(* GithubCommands.sync_repositories / sync_single_repository               *)
(* (src/app/db/github_commands.py) over the GithubClient response cache    *)
(* (src/app/modules/github.py), the Backstage catalog adapter and the      *)
(* Mongo collection.                                                       *)
(*                                                                         *)
(* Every await of the handlers is one step of a task.  The collection, the *)
(* source host and the catalog are the environment: their answers and      *)
(* their failures are chosen nondeterministically.                         *)
(***************************************************************************)
EXTENDS Integers, Sequences, FiniteSets, TLC

(* ------------------------------ bounds -------------------------------- *)

\* Number of handler calls (sync or sync_single) started in one behaviour.
MaxCalls == 2

\* batch_size ranges over 1..MaxBatch (the router admits 1..50).
MaxBatch == 2

\* The clock (minutes) stops advancing once it is past MaxNow.
MaxNow == 61

(* ----------------------------- universe ------------------------------- *)

\* Repository names of the organisation.
Names == {"a", "b", "c"}

\* Handler invocations that may be in progress.  Spec runs task 1 alone.
Tasks == {1, 2}

\* The three top-level sources of sync_repositories.
Sources == {"db", "github", "backstage"}

\* cursor.to_list(length=1000)
ToListLength == 1000

\* self._set_cache_data(cache_key, repo_names, 60)
RepositoriesTtl == 60

(* ------------------------------ lists --------------------------------- *)

Range(s) == {s[i] : i \in DOMAIN s}

\* Python `x in s` on a list.
Contains(s, x) == \E i \in DOMAIN s : s[i] = x

Min(a, b) == IF a <= b THEN a ELSE b

\* Number of elements of s that satisfy name = n.
RECURSIVE CountName(_, _)
CountName(s, n) ==
    IF s = <<>> THEN 0
    ELSE (IF Head(s).name = n THEN 1 ELSE 0) + CountName(Tail(s), n)

\* list(dict.fromkeys(s)): duplicates dropped, first occurrences kept in order.
RECURSIVE Dedup(_)
Dedup(s) ==
    IF s = <<>> THEN <<>>
    ELSE LET rest == Dedup(SubSeq(s, 1, Len(s) - 1))
             last == s[Len(s)]
         IN IF Contains(rest, last) THEN rest ELSE Append(rest, last)

(* ------------------------------ state --------------------------------- *)

VARIABLES
    store,      \* the Mongo collection: documents in natural (insertion) order
    ghRemote,   \* the organisation's repositories as the source host lists them
    cache,      \* GithubClient._cache: cache key -> CacheEntry
    now,        \* datetime.now(), in minutes
    sonar,      \* sonarcloud_token and sonarcloud_org are both configured
    pc,         \* task -> the await the handler is suspended at
    ctx,        \* task -> the handler's local variables
    log,        \* task -> the collaborator calls the handler has made so far
    calls,      \* number of handler calls started
    file_cache, \* GithubClient._file_cache: cache key -> CacheEntry
    ret,        \* what the last call on the GithubClient cache returned
    semaphore,  \* the free slots of get_multiple_repositories_info's Semaphore
    info_tasks, \* repository -> state of its get_repo_info_with_semaphore task
    in_flight,  \* repository -> category -> requests sent and not yet answered
    repo_files, \* file path -> content of the file in the repository examined
    submitted   \* the repo_names of the batch, in the order their tasks were made

\* The client's second namespace and the bounded fan-out, which the handlers
\* above the adapters leave alone.
client == <<file_cache, ret, semaphore, info_tasks, in_flight, repo_files, submitted>>

vars == <<store, ghRemote, cache, now, sonar, pc, ctx, log, calls, client>>

(* ---------------------------- documents ------------------------------- *)

\* What the catalog's location list may hold (targets, before de-duplication).
CatalogTargets == {<<"c", "a", "c">>}

\* Repositories whose /actions/runs total_count is positive.
ActionsRun == {"c"}

\* Repositories that are projects of the organisation at SonarCloud.
SonarProjects == {"a"}

\* get_repository_complete_info's defaults, used when a name has no entry.
DefaultInfo == [have_github_actions |-> FALSE]

\* repository.SonarCloudInfo(active=...): the quality-platform status.
SonarCloudInfo(active) == [active |-> active]

\* Python None, and a value that is not None.
None == [none |-> TRUE]
Some(v) == [none |-> FALSE, val |-> v]

\* RepositoryInDB(...).model_dump(by_alias=True, exclude={"id"}): the fields the
\* schema declares (name, backstage, github, created_at, updated_at); a keyword
\* the schema does not declare is not part of the dump.  created_at takes its
\* default, the time of construction, and updated_at its default None, since
\* no handler passes either.
RepositoryInDB(name, info, active_backstage, sonarcloud) ==
    [name       |-> name,
     backstage  |-> active_backstage,
     github     |-> info.have_github_actions,
     created_at |-> now,
     updated_at |-> None]

\* The time at which the documents found in the collection were made: before
\* the process started.
Earlier == 0 - 1

\* A document already in the collection when the process starts.
StoredDocument(n) ==
    [name |-> n, backstage |-> FALSE, github |-> FALSE,
     created_at |-> Earlier, updated_at |-> None]

\* The names stored when the process starts: none, one, two in either order.
\* No name is stored twice.
InitialStores ==
    {<<>>, <<"b">>, <<"a", "b">>, <<"b", "a">>}

\* What the source host lists (GET /orgs/{org}/repos, all pages): no
\* repository, one, two, all three.  A name is listed once.
HostLists ==
    {<<>>, <<"b">>, <<"c">>, <<"a", "c">>, <<"c", "a", "b">>}

(* ------------------------------ cache --------------------------------- *)

\* The key without its qualifier.
CacheKeyWithoutExtra(method, repo_name, extra) == method \o ":" \o repo_name

\* GithubClient._get_cache_key: f"{method}:{repo_name}:{extra}"
get_cache_key(method, repo_name, extra) ==
    method \o ":" \o repo_name \o ":" \o extra

\* cache_key = self._get_cache_key("repositories")
RepositoriesKey == get_cache_key("repositories", "", "")

\* CacheEntry.__init__: expiry = now + expiry_minutes
CacheEntry(data, expiry_minutes, t) == [data |-> data, expiry |-> t + expiry_minutes]

\* CacheEntry.is_expired: now > expiry
is_expired(entry, t) == t > entry.expiry

\* The lookup without its expiry test.
GetCachedIgnoringExpiry(c, cache_key, t) ==
    IF cache_key \in DOMAIN c THEN c[cache_key].data ELSE None

\* GithubClient._get_cached_data, on the namespace use_file_cache selects
get_cached_data(c, cache_key, t) ==
    IF cache_key \in DOMAIN c /\ ~is_expired(c[cache_key], t)
    THEN c[cache_key].data
    ELSE None

\* GithubClient._set_cache_data
set_cache_data(c, cache_key, data, expiry_minutes, t) ==
    [k \in DOMAIN c \cup {cache_key} |->
        IF k = cache_key THEN CacheEntry(data, expiry_minutes, t) ELSE c[k]]

\* A task of get_multiple_repositories_info: waiting for the semaphore,
\* inside `async with semaphore`, or returned with its info.
InfoTask(state, info) == [state |-> state, info |-> info]

NoTasks == [n \in {} |-> InfoTask("pending", DefaultInfo)]

\* No call on the cache has returned yet.
NoReturn == [op |-> "none"]

\* The facts get_repository_complete_info gathers about a repository, by the
\* request each one sends: /contributors, /actions/runs, /contents/{path},
\* /search/code.
Categories == {"contributors", "github_actions", "file_content", "sonar"}

\* No request of any repository is in flight.
NoRequests == [n \in {} |-> [k \in Categories |-> 0]]

\* check_repository_files_batch's files_to_check
files_to_check ==
    <<"mkdocs.yml", "mkdocs.yaml", "catalog-info.yaml", "catalog-info.yml">>

\* No repository is being examined.
NoFiles == [f \in {} |-> None]

(* ----------------------------- adapters ------------------------------- *)

\* GithubClient.get_repositories: the outcomes of one call.  A hit returns the
\* cached list; a miss asks the source host, which answers (the list is cached
\* for RepositoriesTtl minutes) or fails (HTTPException, nothing cached).
get_repositories(c, t, remote) ==
    LET cached_data == get_cached_data(c, RepositoriesKey, t)
    IN IF cached_data # None
       THEN {[ok |-> TRUE, value |-> cached_data.val, cache |-> c]}
       ELSE {[ok |-> TRUE, value |-> remote,
              cache |-> set_cache_data(c, RepositoriesKey, Some(remote), RepositoriesTtl, t)],
             [ok |-> FALSE, value |-> <<>>, cache |-> c]}

\* Backstage.backstage_get_repositories: the de-duplicated names, or a failure.
backstage_get_repositories ==
    {[ok |-> TRUE, value |-> Dedup(targets)] : targets \in CatalogTargets}
        \cup {[ok |-> FALSE, value |-> <<>>]}

\* GithubCommands.get_all_name_repositories: the names of the first
\* ToListLength documents, or a failure of the query.
get_all_name_repositories(s) ==
    {[ok |-> TRUE,
      value |-> [i \in 1..Min(Len(s), ToListLength) |-> s[i].name]],
     [ok |-> FALSE, value |-> <<>>]}

\* asyncio.gather(..., return_exceptions=True) and the isinstance checks of
\* sync_repositories: a failed source counts as the empty list.
GatherResult(r) == IF r.ok THEN r.value ELSE <<>>

\* A failed source makes the handler raise (no return_exceptions).
GatherRaises(r) == r.ok

\* Whether sync_repositories goes on after the three fetches.
GatherProceeds(r) == TRUE

\* What a call writes about the sources whose failure it degraded to the empty
\* list: each else branch is `pass  # Error handled silently`, nothing is
\* logged and the result has no field for a failure.
ErrorRecords(failed) == {}

(* --------------------------- handler state ---------------------------- *)

NoResult ==
    [status |-> "", newRepositories |-> <<>>, deletedRepositories |-> <<>>,
     newRepositoriesCount |-> 0, deletedRepositoriesCount |-> 0]

\* sync_response.SyncRepository
SyncRepository(status, new, deleted, newCount, deletedCount) ==
    [status |-> status, newRepositories |-> new, deletedRepositories |-> deleted,
     newRepositoriesCount |-> newCount, deletedRepositoriesCount |-> deletedCount]

EmptyDict == [n \in {} |-> DefaultInfo]

\* The locals of a handler that has not run yet.
FreshContext ==
    [op                     |-> "none",
     batch_size             |-> 0,
     repo_name              |-> "",
     repositories_in_db     |-> <<>>,
     repositories_in_github |-> <<>>,
     backstage_repos        |-> <<>>,
     failed                 |-> {},     \* the sources whose fetch raised
     new_repos              |-> <<>>,
     delete_repos           |-> <<>>,
     deleted                |-> 0,      \* removals already deleted
     i                      |-> 0,      \* range(0, len(new_repos), batch_size)
     repo_info_dict         |-> EmptyDict,
     sonarcloud_results     |-> <<>>,
     error                  |-> "",     \* the call that raised out of the handler
     result                 |-> NoResult,
     store_before           |-> <<>>,   \* the collection when the call began
     previous               |-> "none"] \* how the call served before this one ended

\* One collaborator call: the operation, the names it is about, its outcome.
Event(op, names, ok) == [op |-> op, names |-> names, ok |-> ok]

Running(p) == pc[p] \notin {"idle", "short_circuit_done", "done", "failed",
                             "not_found", "created", "updated"}

\* How the call that task p served last ended: a sync that returned, or
\* anything else.
Ended(p) ==
    IF ctx[p].op = "sync" /\ pc[p] \in {"short_circuit_done", "done"}
    THEN "sync_returned"
    ELSE "other"

(* -------------------------- sync_repositories ------------------------- *)

\* The additions in the reverse of the order the source host listed them.
NewReposReversed(in_github, in_db) ==
    LET new == SelectSeq(in_github, LAMBDA item : ~Contains(in_db, item))
    IN [i \in DOMAIN new |-> new[Len(new) + 1 - i]]

\* The comprehension with `in` for `not in`.
NewReposKeepsStored(in_github, in_db) ==
    SelectSeq(in_github, LAMBDA item : Contains(in_db, item))

\* new_repos = [item for item in repositories_in_github if item not in repositories_in_db]
NewRepos(in_github, in_db) ==
    SelectSeq(in_github, LAMBDA item : ~Contains(in_db, item))

\* A mirror rebuilt from nothing: every stored name is deleted.
DeleteReposAll(in_github, in_db) == in_db

\* delete_repos = [item for item in repositories_in_db if item not in repositories_in_github]
DeleteRepos(in_github, in_db) ==
    SelectSeq(in_db, LAMBDA item : ~Contains(in_github, item))

\* The test with its second `not` dropped.
NoChangesOnlyAdditions(new_repos, delete_repos) == new_repos = <<>> /\ delete_repos # <<>>

\* if not new_repos and not delete_repos
NoChanges(new_repos, delete_repos) == new_repos = <<>> /\ delete_repos = <<>>

\* batch = new_repos[i:i + batch_size]
Batch(new_repos, i, batch_size) ==
    SubSeq(new_repos, i + 1, Min(i + batch_size, Len(new_repos)))

\* The test with <= for <: a pause after the last full batch too.
PauseAfterLast(i, batch_size, n) == i + batch_size <= n

\* if i + batch_size < len(new_repos): await asyncio.sleep(1)
PauseNeeded(i, batch_size, n) == i + batch_size < n

\* The two blocks swapped: the batches first, the deletions never before them.
AfterDiffBatchesFirst(new_repos, delete_repos) ==
    IF new_repos = <<>> /\ delete_repos = <<>> THEN "short_circuit_done"
    ELSE IF new_repos # <<>> THEN "enriching"
    ELSE "deleting"

\* Where the handler goes after the diff: the short circuit, the deletions, or
\* (nothing to delete) the first batch.
AfterDiff(new_repos, delete_repos) ==
    IF NoChanges(new_repos, delete_repos) THEN "short_circuit_done"
    ELSE IF delete_repos # <<>> THEN "deleting"
    ELSE "enriching"

\* Where the handler goes after deleting the removal number `deleted`.
AfterDelete(deleted, new_repos, delete_repos) ==
    IF deleted < Len(delete_repos) THEN "deleting"
    ELSE IF new_repos # <<>> THEN "enriching"
    ELSE "done"

\* for i in range(0, len(new_repos), batch_size): another batch follows.
RangeContinues(i, batch_size, n) == i + batch_size < n

\* Where the handler goes once the batch at offset i is processed.
AfterInsert(i, batch_size, n) ==
    IF PauseNeeded(i, batch_size, n) THEN "pausing"
    ELSE IF RangeContinues(i, batch_size, n) THEN "enriching"
    ELSE "done"

\* Where the handler goes after the pause that follows the batch at offset i.
AfterPause(i, batch_size, n) ==
    IF RangeContinues(i, batch_size, n) THEN "enriching" ELSE "done"

\* POST /github/sync?batch_size=b
sync_github(p, b) ==
    /\ ~Running(p)
    /\ calls < MaxCalls
    /\ calls' = calls + 1
    /\ pc' = [pc EXCEPT ![p] = "fetching"]
    /\ ctx' = [ctx EXCEPT ![p] = [FreshContext EXCEPT !.op = "sync",
                                                       !.batch_size = b,
                                                       !.store_before = store,
                                                       !.previous = Ended(p)]]
    /\ log' = [log EXCEPT ![p] = <<>>]
    /\ UNCHANGED <<store, ghRemote, cache, now, sonar, client>>

\* The three concurrent fetches and the isinstance checks (lines 48-78).
FetchSources(p) ==
    /\ pc[p] = "fetching"
    /\ \E db \in get_all_name_repositories(store),
          gh \in get_repositories(cache, now, ghRemote),
          bs \in backstage_get_repositories :
         /\ cache' = gh.cache
         /\ IF GatherProceeds(db) /\ GatherProceeds(gh) /\ GatherProceeds(bs)
            THEN /\ pc' = [pc EXCEPT ![p] = "diffing"]
                 /\ ctx' = [ctx EXCEPT
                        ![p].repositories_in_db = GatherResult(db),
                        ![p].repositories_in_github = GatherResult(gh),
                        ![p].backstage_repos = GatherResult(bs),
                        ![p].failed = {s \in Sources :
                                         \/ s = "db" /\ ~db.ok
                                         \/ s = "github" /\ ~gh.ok
                                         \/ s = "backstage" /\ ~bs.ok}]
            ELSE /\ pc' = [pc EXCEPT ![p] = "failed"]
                 /\ ctx' = [ctx EXCEPT ![p].error = "gather"]
    /\ UNCHANGED <<store, ghRemote, now, sonar, log, calls, client>>

\* The diff and the short circuit (lines 80-96).
Diff(p) ==
    /\ pc[p] = "diffing"
    /\ LET c == ctx[p]
           new_repos == NewRepos(c.repositories_in_github, c.repositories_in_db)
           delete_repos == DeleteRepos(c.repositories_in_github, c.repositories_in_db)
           next == AfterDiff(new_repos, delete_repos)
       IN /\ pc' = [pc EXCEPT ![p] = next]
          /\ ctx' = [ctx EXCEPT
                 ![p].new_repos = new_repos,
                 ![p].delete_repos = delete_repos,
                 ![p].result = IF next = "short_circuit_done"
                               THEN SyncRepository("No changes", <<>>, <<>>, 0, 0)
                               ELSE NoResult]
    /\ UNCHANGED <<store, ghRemote, cache, now, sonar, log, calls, client>>

\* collection.delete_one({"name": repo}): the first document of that name goes.
RECURSIVE delete_one(_, _)
delete_one(s, name) ==
    IF s = <<>> THEN <<>>
    ELSE IF Head(s).name = name THEN Tail(s)
    ELSE <<Head(s)>> \o delete_one(Tail(s), name)

\* The result of a call that wrote, tagged as a call that found no changes.
UpdatedTaggedNoChanges(c) ==
    SyncRepository("No changes", c.new_repos, c.delete_repos,
                   Len(c.new_repos), Len(c.delete_repos))

\* The value sync_repositories returns at its end (lines 120-126).
Updated(c) ==
    SyncRepository("Updated", c.new_repos, c.delete_repos,
                   Len(c.new_repos), Len(c.delete_repos))

\* One iteration of `for repo in delete_repos: await collection.delete_one(...)`.
\* A failed delete raises out of the handler.
DeleteOne(p) ==
    /\ pc[p] = "deleting"
    /\ LET c == ctx[p]
           repo == c.delete_repos[c.deleted + 1]
           next == AfterDelete(c.deleted + 1, c.new_repos, c.delete_repos)
       IN \/ /\ store' = delete_one(store, repo)
             /\ log' = [log EXCEPT ![p] = Append(@, Event("delete_one", <<repo>>, TRUE))]
             /\ pc' = [pc EXCEPT ![p] = next]
             /\ ctx' = [ctx EXCEPT
                    ![p].deleted = c.deleted + 1,
                    ![p].result = IF next = "done" THEN Updated(c) ELSE NoResult]
          \/ /\ store' = store
             /\ log' = [log EXCEPT ![p] = Append(@, Event("delete_one", <<repo>>, FALSE))]
             /\ pc' = [pc EXCEPT ![p] = "failed"]
             /\ ctx' = [ctx EXCEPT ![p].error = "delete_one"]
    /\ UNCHANGED <<ghRemote, cache, now, sonar, calls, client>>

(* --------------------- _process_repositories_batch -------------------- *)

\* get_repository_complete_info for one name: a fact whose fetch failed falls
\* back to its default.
CompleteInfo(name, actions_failed) ==
    [have_github_actions |-> IF actions_failed THEN FALSE ELSE name \in ActionsRun]

\* repo_info_dict.get(repo_name, {}) and the .get(..., default) reads of it.
InfoOf(repo_info_dict, name) ==
    IF name \in DOMAIN repo_info_dict THEN repo_info_dict[name] ELSE DefaultInfo

\* GithubCommands._check_sonarcloud_safe: has_sonarcloud's answer, False when
\* it raised.
check_sonarcloud_safe(name, raised) ==
    IF raised THEN FALSE ELSE name \in SonarProjects

\* sonarcloud_results[idx] if idx < len(sonarcloud_results) else False
SonarResult(sonarcloud_results, idx) ==
    IF idx \in DOMAIN sonarcloud_results THEN sonarcloud_results[idx] ELSE FALSE

\* documents_to_insert for a batch (lines 154-184).
DocumentsToInsert(batch, repo_info_dict, backstage_repos, sonarcloud_results) ==
    [idx \in DOMAIN batch |->
        RepositoryInDB(batch[idx],
                       InfoOf(repo_info_dict, batch[idx]),
                       Contains(backstage_repos, batch[idx]),
                       SonarCloudInfo(SonarResult(sonarcloud_results, idx)))]

\* The insert left to the last batch: the earlier batches are enriched only.
AfterEnrichInsertLast(i, batch_size, n) ==
    IF i + batch_size < n THEN "pausing" ELSE "writing"

\* Within _process_repositories_batch the documents are built and inserted only
\* after the batch's enrichment has returned.
AfterEnrich(i, batch_size, n) == "writing"

\* A compensating rollback to the collection as it was when the call began.
StoreRolledBack(s, s_before) == s_before

\* The collection after insert_many raised: the handler has no except clause
\* and compensates nothing.
StoreAfterFailedInsert(s, s_before) == s

\* get_multiple_repositories_info and the SonarCloud checks of one batch
\* (lines 139-152): neither raises.
EnrichBatch(p) ==
    /\ pc[p] = "enriching"
    /\ LET c == ctx[p]
           batch == Batch(c.new_repos, c.i, c.batch_size)
       IN \E failing \in SUBSET (Range(batch) \cap ActionsRun),
             raising \in SUBSET (Range(batch) \cap SonarProjects) :
            /\ log' = [log EXCEPT ![p] =
                          IF sonar
                          THEN @ \o <<Event("enrich", batch, TRUE),
                                      Event("sonarcloud", batch, TRUE)>>
                          ELSE Append(@, Event("enrich", batch, TRUE))]
            /\ pc' = [pc EXCEPT ![p] = AfterEnrich(c.i, c.batch_size, Len(c.new_repos))]
            /\ ctx' = [ctx EXCEPT
                   ![p].repo_info_dict =
                       [n \in Range(batch) |-> CompleteInfo(n, n \in failing)],
                   ![p].sonarcloud_results =
                       [idx \in DOMAIN batch |->
                           IF sonar
                           THEN check_sonarcloud_safe(batch[idx], batch[idx] \in raising)
                           ELSE FALSE]]
    /\ UNCHANGED <<store, ghRemote, cache, now, sonar, calls, client>>

\* An insert that replaces the stored document of the same name.
InsertManyUpsert(s, docs) ==
    LET names == {docs[i].name : i \in DOMAIN docs}
        kept == SelectSeq(s, LAMBDA doc : doc.name \notin names)
    IN kept \o docs

\* collection.insert_many(documents_to_insert): the documents are appended,
\* whatever the collection holds (no unique index on name is declared).
insert_many(s, docs) == s \o docs

\* if documents_to_insert: await collection.insert_many(documents_to_insert)
\* (lines 186-188).  A failed insert raises out of the handler.
InsertBatch(p) ==
    /\ pc[p] = "writing"
    /\ LET c == ctx[p]
           batch == Batch(c.new_repos, c.i, c.batch_size)
           docs == DocumentsToInsert(batch, c.repo_info_dict, c.backstage_repos,
                                     c.sonarcloud_results)
           next == AfterInsert(c.i, c.batch_size, Len(c.new_repos))
       IN \/ /\ store' = insert_many(store, docs)
             /\ log' = [log EXCEPT ![p] =
                           IF docs # <<>>
                           THEN Append(@, Event("insert_many", batch, TRUE))
                           ELSE @]
             /\ pc' = [pc EXCEPT ![p] = next]
             /\ ctx' = [ctx EXCEPT
                    ![p].repo_info_dict = EmptyDict,
                    ![p].sonarcloud_results = <<>>,
                    ![p].i = IF next = "enriching" THEN @ + c.batch_size ELSE @,
                    ![p].result = IF next = "done" THEN Updated(c) ELSE NoResult]
          \/ /\ docs # <<>>
             /\ store' = StoreAfterFailedInsert(store, c.store_before)
             /\ log' = [log EXCEPT ![p] = Append(@, Event("insert_many", batch, FALSE))]
             /\ pc' = [pc EXCEPT ![p] = "failed"]
             /\ ctx' = [ctx EXCEPT ![p].error = "insert_many"]
    /\ UNCHANGED <<ghRemote, cache, now, sonar, calls, client>>

\* await asyncio.sleep(1) between two batches (lines 116-118).
Pause(p) ==
    /\ pc[p] = "pausing"
    /\ LET c == ctx[p]
           next == AfterPause(c.i, c.batch_size, Len(c.new_repos))
       IN /\ pc' = [pc EXCEPT ![p] = next]
          /\ ctx' = [ctx EXCEPT
                 ![p].i = IF next = "enriching" THEN @ + c.batch_size ELSE @,
                 ![p].result = IF next = "done" THEN Updated(c) ELSE NoResult]
    /\ log' = [log EXCEPT ![p] = Append(@, Event("sleep", <<>>, TRUE))]
    /\ UNCHANGED <<store, ghRemote, cache, now, sonar, calls, client>>

(* ----------------------- sync_single_repository ----------------------- *)

\* collection.replace_one({"name": name}, doc, upsert=True): the first document
\* of that name is replaced; with none, the document is inserted.
RECURSIVE replace_one(_, _, _)
replace_one(s, name, doc) ==
    IF s = <<>> THEN <<doc>>
    ELSE IF Head(s).name = name THEN <<doc>> \o Tail(s)
    ELSE <<Head(s)>> \o replace_one(Tail(s), name, doc)

\* The upsert reported as an insert whatever the collection held.
UpsertedAlways(s, name) == TRUE

\* result.upserted_id: set when the upsert inserted.
upserted_id(s, name) == CountName(s, name) = 0

\* The membership test left out: every name goes on to enrichment.
AfterValidateUnchecked(github_repos, repo_name) == "single_enriching"

\* if repo_name not in github_repos: return {"status": "error", ...}
AfterValidate(github_repos, repo_name) ==
    IF ~Contains(github_repos, repo_name) THEN "not_found" ELSE "single_enriching"

\* The dictionary sync_single_repository returns.
SingleResult(status) == [NoResult EXCEPT !.status = status]

\* POST /github/sync/{repository_name}
sync_single_repository(p, name) ==
    /\ ~Running(p)
    /\ calls < MaxCalls
    /\ calls' = calls + 1
    /\ pc' = [pc EXCEPT ![p] = "validating"]
    /\ ctx' = [ctx EXCEPT ![p] = [FreshContext EXCEPT !.op = "sync_single",
                                                       !.repo_name = name,
                                                       !.store_before = store,
                                                       !.previous = Ended(p)]]
    /\ log' = [log EXCEPT ![p] = <<>>]
    /\ UNCHANGED <<store, ghRemote, cache, now, sonar, client>>

\* A validation that takes a failed fetch for the empty list, as the
\* top-level sync does.
ValidateOneDegrading(p) ==
    /\ pc[p] = "validating"
    /\ \E gh \in get_repositories(cache, now, ghRemote) :
         /\ cache' = gh.cache
         /\ IF AfterValidate(GatherResult(gh), ctx[p].repo_name) = "not_found"
            THEN /\ pc' = [pc EXCEPT ![p] = "not_found"]
                 /\ ctx' = [ctx EXCEPT ![p].repositories_in_github = GatherResult(gh),
                                       ![p].result = SingleResult("error")]
            ELSE /\ pc' = [pc EXCEPT ![p] = "single_enriching"]
                 /\ ctx' = [ctx EXCEPT ![p].repositories_in_github = gh.value]
    /\ UNCHANGED <<store, ghRemote, now, sonar, log, calls, client>>

\* github_repos = await self.get_repositories(); the membership test
\* (lines 231-234).  A failed fetch raises out of the handler.
ValidateOne(p) ==
    /\ pc[p] = "validating"
    /\ \E gh \in get_repositories(cache, now, ghRemote) :
         /\ cache' = gh.cache
         /\ IF ~gh.ok
            THEN /\ pc' = [pc EXCEPT ![p] = "failed"]
                 /\ ctx' = [ctx EXCEPT ![p].error = "get_repositories"]
            ELSE IF AfterValidate(gh.value, ctx[p].repo_name) = "not_found"
            THEN /\ pc' = [pc EXCEPT ![p] = "not_found"]
                 /\ ctx' = [ctx EXCEPT ![p].repositories_in_github = gh.value,
                                       ![p].result = SingleResult("error")]
            ELSE /\ pc' = [pc EXCEPT ![p] = "single_enriching"]
                 /\ ctx' = [ctx EXCEPT ![p].repositories_in_github = gh.value]
    /\ UNCHANGED <<store, ghRemote, now, sonar, log, calls, client>>

\* get_repository_complete_info, backstage_get_repositories and the SonarCloud
\* check (lines 236-250).  Only the catalog fetch can raise.
EnrichOne(p) ==
    /\ pc[p] = "single_enriching"
    /\ LET name == ctx[p].repo_name
           enriched == IF sonar
                       THEN <<Event("enrich", <<name>>, TRUE),
                              Event("sonarcloud", <<name>>, TRUE)>>
                       ELSE <<Event("enrich", <<name>>, TRUE)>>
       IN \E actions_failed \in {FALSE, (name \in ActionsRun)},
             sonar_raised \in {FALSE, (name \in SonarProjects)},
             bs \in backstage_get_repositories :
            IF bs.ok
            THEN /\ pc' = [pc EXCEPT ![p] = "single_writing"]
                 /\ ctx' = [ctx EXCEPT
                        ![p].backstage_repos = bs.value,
                        ![p].repo_info_dict =
                            [n \in {name} |-> CompleteInfo(name, actions_failed)],
                        ![p].sonarcloud_results =
                            <<IF sonar THEN check_sonarcloud_safe(name, sonar_raised)
                              ELSE FALSE>>]
                 /\ log' = [log EXCEPT ![p] = @ \o enriched]
            ELSE /\ pc' = [pc EXCEPT ![p] = "failed"]
                 /\ ctx' = [ctx EXCEPT ![p].error = "backstage_get_repositories"]
                 /\ log' = [log EXCEPT ![p] = Append(@, Event("enrich", <<name>>, TRUE))]
    /\ UNCHANGED <<store, ghRemote, cache, now, sonar, calls, client>>

\* collection.replace_one(..., upsert=True) and the returned status
\* (lines 252-279).
ReplaceOne(p) ==
    /\ pc[p] = "single_writing"
    /\ LET c == ctx[p]
           name == c.repo_name
           repo_document ==
               RepositoryInDB(name, InfoOf(c.repo_info_dict, name),
                              Contains(c.backstage_repos, name),
                              SonarCloudInfo(SonarResult(c.sonarcloud_results, 1)))
           status == IF upserted_id(store, name) THEN "created" ELSE "updated"
       IN \/ /\ store' = replace_one(store, name, repo_document)
             /\ log' = [log EXCEPT ![p] = Append(@, Event("replace_one", <<name>>, TRUE))]
             /\ pc' = [pc EXCEPT ![p] = status]
             /\ ctx' = [ctx EXCEPT ![p].repo_info_dict = EmptyDict,
                                   ![p].sonarcloud_results = <<>>,
                                   ![p].result = SingleResult(status)]
          \/ /\ store' = store
             /\ log' = [log EXCEPT ![p] = Append(@, Event("replace_one", <<name>>, FALSE))]
             /\ pc' = [pc EXCEPT ![p] = "failed"]
             /\ ctx' = [ctx EXCEPT ![p].error = "replace_one"]
    /\ UNCHANGED <<ghRemote, cache, now, sonar, calls, client>>

(* ---------------------------- environment ----------------------------- *)

\* Time passes while no handler runs, until a cached entry has just expired.
TimePasses ==
    /\ \A p \in Tasks : ~Running(p)
    /\ \E k \in DOMAIN cache :
         /\ ~is_expired(cache[k], now)
         /\ cache[k].expiry + 1 <= MaxNow
         /\ now' = cache[k].expiry + 1
    /\ UNCHANGED <<store, ghRemote, cache, sonar, pc, ctx, log, calls, client>>

(* --------------------------- specification ---------------------------- *)

Init ==
    /\ store \in {[i \in DOMAIN l |-> StoredDocument(l[i])] : l \in InitialStores}
    /\ ghRemote \in HostLists
    /\ cache = [k \in {} |-> CacheEntry(None, 0, 0)]
    /\ now = 0
    /\ sonar = TRUE
    /\ pc = [p \in Tasks |-> "idle"]
    /\ ctx = [p \in Tasks |-> FreshContext]
    /\ log = [p \in Tasks |-> <<>>]
    /\ calls = 0
    /\ file_cache = [k \in {} |-> CacheEntry(None, 0, 0)]
    /\ ret = NoReturn
    /\ semaphore = 0
    /\ info_tasks = NoTasks
    /\ in_flight = NoRequests
    /\ repo_files = NoFiles
    /\ submitted = <<>>

\* The steps of the handler call that task p runs.
TaskStep(p) ==
    \/ FetchSources(p)
    \/ Diff(p)
    \/ DeleteOne(p)
    \/ EnrichBatch(p)
    \/ InsertBatch(p)
    \/ Pause(p)
    \/ ValidateOne(p)
    \/ EnrichOne(p)
    \/ ReplaceOne(p)

\* Handler calls are served one at a time.
Next ==
    \/ \E b \in 1..MaxBatch : sync_github(1, b)
    \/ \E name \in Names : sync_single_repository(1, name)
    \/ TaskStep(1)
    \/ TimePasses

Spec == Init /\ [][Next]_vars

\* The process started with no SonarCloud token or organisation in its
\* settings.
UnconfiguredInit ==
    /\ store \in {[i \in DOMAIN l |-> StoredDocument(l[i])] : l \in {<<>>, <<"b">>}}
    /\ ghRemote \in {<<"c">>, <<"a", "c">>}
    /\ cache = [k \in {} |-> CacheEntry(None, 0, 0)]
    /\ now = 0
    /\ sonar = FALSE
    /\ pc = [p \in Tasks |-> "idle"]
    /\ ctx = [p \in Tasks |-> FreshContext]
    /\ log = [p \in Tasks |-> <<>>]
    /\ calls = 0
    /\ file_cache = [k \in {} |-> CacheEntry(None, 0, 0)]
    /\ ret = NoReturn
    /\ semaphore = 0
    /\ info_tasks = NoTasks
    /\ in_flight = NoRequests
    /\ repo_files = NoFiles
    /\ submitted = <<>>

\* The handlers of a process without a quality platform.
UnconfiguredSpec == UnconfiguredInit /\ [][Next]_vars

\* Two requests to POST /github/sync served by the one GithubCommands
\* instance: each is a task of the event loop and the tasks interleave at
\* their awaits.
ConcurrentInit ==
    /\ store \in {[i \in DOMAIN l |-> StoredDocument(l[i])] : l \in {<<>>, <<"b">>}}
    /\ ghRemote \in {<<"c">>, <<"a", "c">>}
    /\ cache = [k \in {} |-> CacheEntry(None, 0, 0)]
    /\ now = 0
    /\ sonar = TRUE
    /\ pc = [p \in Tasks |-> "idle"]
    /\ ctx = [p \in Tasks |-> FreshContext]
    /\ log = [p \in Tasks |-> <<>>]
    /\ calls = 0
    /\ file_cache = [k \in {} |-> CacheEntry(None, 0, 0)]
    /\ ret = NoReturn
    /\ semaphore = 0
    /\ info_tasks = NoTasks
    /\ in_flight = NoRequests
    /\ repo_files = NoFiles
    /\ submitted = <<>>

\* A request is served by a task of its own, which ends with the call.
SyncRequest(p) ==
    /\ pc[p] = "idle"
    /\ \E b \in 1..MaxBatch : sync_github(p, b)

ConcurrentNext ==
    \E p \in Tasks :
        \/ SyncRequest(p)
        \/ FetchSources(p)
        \/ Diff(p)
        \/ DeleteOne(p)
        \/ EnrichBatch(p)
        \/ InsertBatch(p)
        \/ Pause(p)

ConcurrentSpec == ConcurrentInit /\ [][ConcurrentNext]_vars

\* The handlers served one at a time, every await of a running call
\* eventually returning or raising: the event loop resumes a task whose
\* awaited call has ended.
LiveSpec == ConcurrentInit /\ [][Next]_vars /\ WF_vars(TaskStep(1))

(* ---------------------------- the listings ---------------------------- *)

\* How far from ToListLength the sizes of the collection go.
MaxMargin == 3

\* The sizes of the collection when the process starts: small, and around
\* the length the listings ask the cursor for.
StoreSizes ==
    (0..(30 + MaxMargin)) \cup ((ToListLength - MaxMargin)..(ToListLength + MaxMargin))

\* A collection of n documents with n names.
StoreOfSize(n) == [i \in 1..n |-> StoredDocument("r" \o ToString(i))]

\* GithubCommands.get_all: the documents cursor.to_list(length=1000) gives
\* and their number, or a failure of the query.
get_all(s) ==
    LET repositorios == SubSeq(s, 1, Min(Len(s), ToListLength))
    IN {[ok |-> TRUE,
         value |-> [repositories |-> repositorios, count |-> Len(repositorios)]],
        [ok |-> FALSE, value |-> [repositories |-> <<>>, count |-> 0]]}

ListFrame ==
    UNCHANGED <<store, ghRemote, cache, now, sonar, pc, ctx, log, calls,
                file_cache, semaphore, info_tasks, in_flight, repo_files, submitted>>

\* GET /github/repositories: get_all
GetAll ==
    /\ \E r \in get_all(store) :
         ret' = [op |-> "get_all", ok |-> r.ok, value |-> r.value]
    /\ ListFrame

\* get_all_name_repositories, as sync_repositories calls it
GetAllNameRepositories ==
    /\ \E r \in get_all_name_repositories(store) :
         ret' = [op |-> "get_all_name_repositories", ok |-> r.ok, value |-> r.value]
    /\ ListFrame

ListInit ==
    /\ store \in {StoreOfSize(n) : n \in StoreSizes}
    /\ ghRemote = <<>>
    /\ cache = [k \in {} |-> CacheEntry(None, 0, 0)]
    /\ now = 0
    /\ sonar = TRUE
    /\ pc = [p \in Tasks |-> "idle"]
    /\ ctx = [p \in Tasks |-> FreshContext]
    /\ log = [p \in Tasks |-> <<>>]
    /\ calls = 0
    /\ file_cache = [k \in {} |-> CacheEntry(None, 0, 0)]
    /\ ret = NoReturn
    /\ semaphore = 0
    /\ info_tasks = NoTasks
    /\ in_flight = NoRequests
    /\ repo_files = NoFiles
    /\ submitted = <<>>

ListNext == GetAll \/ GetAllNameRepositories

\* The two listings called on a collection of any of the sizes.
ListSpec == ListInit /\ [][ListNext]_vars

(* ------------------------ sync of a large mirror ----------------------- *)

\* A source-host list of the n names of StoreOfSize(n) followed by c.
HostOfSize(n) == [i \in 1..(n + 1) |-> IF i <= n THEN "r" \o ToString(i) ELSE "c"]

\* The collection and the source-host list when the process starts: small
\* ones, and a collection of ToListLength documents and of one more, the
\* source host listing the first ToListLength names and one new name.
Mirrors ==
    {<<[i \in DOMAIN l |-> StoredDocument(l[i])], h>> :
        l \in {<<>>, <<"b">>, <<"a", "b">>}, h \in {<<"c">>, <<"a", "c">>}}
    \cup {<<StoreOfSize(ToListLength), HostOfSize(ToListLength)>>,
          <<StoreOfSize(ToListLength + 1), HostOfSize(ToListLength)>>}

LargeInit ==
    /\ \E m \in Mirrors :
         /\ store = m[1]
         /\ ghRemote = m[2]
    /\ cache = [k \in {} |-> CacheEntry(None, 0, 0)]
    /\ now = 0
    /\ sonar = TRUE
    /\ pc = [p \in Tasks |-> "idle"]
    /\ ctx = [p \in Tasks |-> FreshContext]
    /\ log = [p \in Tasks |-> <<>>]
    /\ calls = 0
    /\ file_cache = [k \in {} |-> CacheEntry(None, 0, 0)]
    /\ ret = NoReturn
    /\ semaphore = 0
    /\ info_tasks = NoTasks
    /\ in_flight = NoRequests
    /\ repo_files = NoFiles
    /\ submitted = <<>>

LargeNext ==
    \/ SyncRequest(1)
    \/ FetchSources(1)
    \/ Diff(1)
    \/ DeleteOne(1)
    \/ EnrichBatch(1)
    \/ InsertBatch(1)
    \/ Pause(1)

\* One request to POST /github/sync, on small collections and on collections
\* around the length the listings ask the cursor for.
LargeSpec == LargeInit /\ [][LargeNext]_vars

(* ------------------------- the client's cache ------------------------- *)

\* Repository names the adapters are asked about; GET
\* /github/test/repository/{repository_name} passes any text on.
CacheRepos == {"a", "a:b"}

\* Two of the files check_repository_files_batch looks for.
FilesToCheck == {"mkdocs.yml", "mkdocs.yaml"}

\* The files the source host has, with their decoded content.
FileContents == [f \in {<<"a", "mkdocs.yml">>} |-> "site_name: a"]

\* self._set_cache_data(cache_key, ..., 30, use_file_cache=True)
FileTtl == 30

\* self._set_cache_data(cache_key, have_actions_running, 30)
ActionsTtl == 30

EmptyCache == [k \in {} |-> CacheEntry(None, 0, 0)]

\* What a lookup finds under a key: nothing, a live entry, an expired one.
Found(c, cache_key, t) ==
    IF cache_key \notin DOMAIN c THEN "absent"
    ELSE IF is_expired(c[cache_key], t) THEN "expired"
    ELSE "fresh"

\* GithubClient.get_repository_file_content: a hit returns the cached content;
\* a miss asks the source host, which answers with the content (cached), with
\* 404 (None is cached and returned) or with an error (HTTPException).
get_repository_file_content(fc, t, repo_name, file_path) ==
    LET cache_key == get_cache_key("file_content", repo_name, file_path)
        cached_data == get_cached_data(fc, cache_key, t)
        answer == IF <<repo_name, file_path>> \in DOMAIN FileContents
                  THEN Some(FileContents[<<repo_name, file_path>>])
                  ELSE None
    IN IF cached_data # None
       THEN {[hit |-> TRUE, ok |-> TRUE, value |-> cached_data, cache |-> fc]}
       ELSE {[hit |-> FALSE, ok |-> TRUE, value |-> answer,
              cache |-> set_cache_data(fc, cache_key, answer, FileTtl, t)],
             [hit |-> FALSE, ok |-> FALSE, value |-> None, cache |-> fc]}

\* GithubClient.have_github_actions: a hit returns the cached boolean; a miss
\* asks the source host, which answers (cached) or fails (HTTPException).
have_github_actions(c, t, repo_name) ==
    LET cache_key == get_cache_key("github_actions", repo_name, "")
        cached_data == get_cached_data(c, cache_key, t)
        have_actions_running == Some(repo_name \in ActionsRun)
    IN IF cached_data # None
       THEN {[hit |-> TRUE, ok |-> TRUE, value |-> cached_data, cache |-> c]}
       ELSE {[hit |-> FALSE, ok |-> TRUE, value |-> have_actions_running,
              cache |-> set_cache_data(c, cache_key, have_actions_running, ActionsTtl, t)],
             [hit |-> FALSE, ok |-> FALSE, value |-> None, cache |-> c]}

\* clear_cache that forgets the file namespace.
ClearGeneralOnly(c, fc) == [cache |-> EmptyCache, file_cache |-> fc]

\* GithubClient.clear_cache: both dictionaries, with no await in between.
clear_cache(c, fc) == [cache |-> EmptyCache, file_cache |-> EmptyCache]

\* The number of expired entries of a namespace.
ExpiredEntries(c, t) == Cardinality({k \in DOMAIN c : is_expired(c[k], t)})

\* Statistics whose total leaves the file namespace out.
StatsOfGeneralOnly(c, fc, t) ==
    [total_entries      |-> Cardinality(DOMAIN c),
     expired_entries    |-> ExpiredEntries(c, t) + ExpiredEntries(fc, t),
     cache_entries      |-> Cardinality(DOMAIN c),
     file_cache_entries |-> Cardinality(DOMAIN fc)]

\* GithubClient.get_cache_stats
get_cache_stats(c, fc, t) ==
    [total_entries      |-> Cardinality(DOMAIN c) + Cardinality(DOMAIN fc),
     expired_entries    |-> ExpiredEntries(c, t) + ExpiredEntries(fc, t),
     cache_entries      |-> Cardinality(DOMAIN c),
     file_cache_entries |-> Cardinality(DOMAIN fc)]

\* What an adapter call returned: the query it was about, what its lookup
\* found under the key and the data stored there, then its outcome.
AdapterReturn(op, query, key, c, r) ==
    [op     |-> op,
     query  |-> query,
     key    |-> key,
     found  |-> Found(c, key, now),
     stored |-> IF key \in DOMAIN c THEN c[key].data ELSE None,
     hit    |-> r.hit,
     ok     |-> r.ok,
     value  |-> r.value]

\* The handlers are idle and their variables stay as they are.
HandlersIdle ==
    UNCHANGED <<store, ghRemote, sonar, pc, ctx, log, semaphore, info_tasks, in_flight, repo_files, submitted>>

\* await self.get_repositories()
GetRepositories ==
    /\ \E gh \in get_repositories(cache, now, ghRemote) :
         LET hit == get_cached_data(cache, RepositoriesKey, now) # None
         IN /\ hit \/ ~gh.ok \/ calls < MaxCalls
            /\ calls' = IF ~hit /\ gh.ok THEN calls + 1 ELSE calls
            /\ cache' = gh.cache
            /\ ret' = AdapterReturn("get_repositories", <<"repositories", "", "">>,
                                    RepositoriesKey, cache,
                                    [hit |-> hit, ok |-> gh.ok,
                                     value |-> IF gh.ok THEN Some(gh.value) ELSE None])
    /\ UNCHANGED <<file_cache, now>>
    /\ HandlersIdle

\* await self.have_github_actions(repo_name)
HaveGithubActions(repo_name) ==
    /\ \E r \in have_github_actions(cache, now, repo_name) :
         /\ r.hit \/ ~r.ok \/ calls < MaxCalls
         /\ calls' = IF ~r.hit /\ r.ok THEN calls + 1 ELSE calls
         /\ cache' = r.cache
         /\ ret' = AdapterReturn("have_github_actions",
                                 <<"github_actions", repo_name, "">>,
                                 get_cache_key("github_actions", repo_name, ""),
                                 cache, r)
    /\ UNCHANGED <<file_cache, now>>
    /\ HandlersIdle

\* await self.get_repository_file_content(repo_name, file_path)
GetRepositoryFileContent(repo_name, file_path) ==
    /\ \E r \in get_repository_file_content(file_cache, now, repo_name, file_path) :
         /\ r.hit \/ ~r.ok \/ calls < MaxCalls
         /\ calls' = IF ~r.hit /\ r.ok THEN calls + 1 ELSE calls
         /\ file_cache' = r.cache
         /\ ret' = AdapterReturn("get_repository_file_content",
                                 <<"file_content", repo_name, file_path>>,
                                 get_cache_key("file_content", repo_name, file_path),
                                 file_cache, r)
    /\ UNCHANGED <<cache, now>>
    /\ HandlersIdle

\* DELETE /github/cache: clear_repository_cache
ClearCache ==
    /\ cache' = clear_cache(cache, file_cache).cache
    /\ file_cache' = clear_cache(cache, file_cache).file_cache
    /\ ret' = [op |-> "clear", value |-> get_cache_stats(cache, file_cache, now)]
    /\ UNCHANGED <<now, calls>>
    /\ HandlersIdle

\* GET /github/cache/stats: get_cache_statistics
GetCacheStats ==
    /\ ret' = [op |-> "stats", value |-> get_cache_stats(cache, file_cache, now)]
    /\ UNCHANGED <<cache, file_cache, now, calls>>
    /\ HandlersIdle

\* Time passes up to the expiry instant of a live entry, or just past it.
CacheTimePasses ==
    /\ \E c \in {cache, file_cache} : \E k \in DOMAIN c : \E t \in {c[k].expiry, c[k].expiry + 1} :
         /\ t > now
         /\ t <= MaxNow
         /\ now' = t
    /\ UNCHANGED <<cache, file_cache, ret, calls>>
    /\ HandlersIdle

CacheInit ==
    /\ store = <<>>
    /\ ghRemote \in {<<>>, <<"a", "c">>}
    /\ cache = EmptyCache
    /\ file_cache = EmptyCache
    /\ now = 0
    /\ sonar = TRUE
    /\ pc = [p \in Tasks |-> "idle"]
    /\ ctx = [p \in Tasks |-> FreshContext]
    /\ log = [p \in Tasks |-> <<>>]
    /\ calls = 0
    /\ ret = NoReturn
    /\ semaphore = 0
    /\ info_tasks = NoTasks
    /\ in_flight = NoRequests
    /\ repo_files = NoFiles
    /\ submitted = <<>>

CacheNext ==
    \/ GetRepositories
    \/ \E repo_name \in CacheRepos : HaveGithubActions(repo_name)
    \/ \E repo_name \in CacheRepos, file_path \in FilesToCheck :
          GetRepositoryFileContent(repo_name, file_path)
    \/ ClearCache
    \/ GetCacheStats
    \/ CacheTimePasses

\* The adapters called directly, as the handlers and the test routes call them.
CacheSpec == CacheInit /\ [][CacheNext]_vars

(* ------------------- get_multiple_repositories_info ------------------- *)

\* get_multiple_repositories_info(repo_batch, max_concurrent=3)
MaxConcurrent == 3

\* The repositories a batch may hold (a batch has up to 50 names).
EnrichRepos == {"a", "b", "c", "d", "e"}

\* The tasks of a batch in a given state.
TasksIn(state) == {n \in DOMAIN info_tasks : info_tasks[n].state = state}

\* A semaphore that never blocks.
NeverLocked(value) == FALSE

\* asyncio.Semaphore.locked(): no free slot, acquire() has to wait.
locked(value) == value = 0

\* The cache, the store and the handlers' own variables stay as they are.
EnrichFrame ==
    UNCHANGED <<store, ghRemote, cache, now, sonar, pc, log, calls, file_cache, ret, in_flight, repo_files, submitted>>

\* semaphore = asyncio.Semaphore(max_concurrent) and one task per repository
\* (lines 320-326).
get_multiple_repositories_info(p, repo_names) ==
    /\ info_tasks = NoTasks
    /\ repo_names # {}
    /\ semaphore' = MaxConcurrent
    /\ info_tasks' = [n \in repo_names |-> InfoTask("pending", DefaultInfo)]
    /\ ctx' = [ctx EXCEPT ![p].repo_info_dict = EmptyDict]
    /\ EnrichFrame

\* async with semaphore: a task enters when a slot is free.
AcquireSemaphore(n) ==
    /\ n \in TasksIn("pending")
    /\ ~locked(semaphore)
    /\ semaphore' = semaphore - 1
    /\ info_tasks' = [info_tasks EXCEPT ![n].state = "running"]
    /\ UNCHANGED ctx
    /\ EnrichFrame

\* get_repository_complete_info returns (it never raises: a failed fact falls
\* back to its default) and the task leaves `async with`, freeing its slot.
ReleaseSemaphore(n) ==
    /\ n \in TasksIn("running")
    /\ \E actions_failed \in {FALSE, (n \in ActionsRun)} :
         info_tasks' = [info_tasks EXCEPT
                           ![n] = InfoTask("done", CompleteInfo(n, actions_failed))]
    /\ semaphore' = semaphore + 1
    /\ UNCHANGED ctx
    /\ EnrichFrame

\* results = await asyncio.gather(...); repo_info_dict (lines 327-337).
GatherInfo(p) ==
    /\ info_tasks # NoTasks
    /\ TasksIn("done") = DOMAIN info_tasks
    /\ ctx' = [ctx EXCEPT ![p].repo_info_dict =
                  [n \in DOMAIN info_tasks |-> info_tasks[n].info]]
    /\ info_tasks' = NoTasks
    /\ semaphore' = 0
    /\ EnrichFrame

EnrichInit ==
    /\ store = <<>>
    /\ ghRemote = <<>>
    /\ cache = EmptyCache
    /\ file_cache = EmptyCache
    /\ now = 0
    /\ sonar = TRUE
    /\ pc = [p \in Tasks |-> "idle"]
    /\ ctx = [p \in Tasks |-> FreshContext]
    /\ log = [p \in Tasks |-> <<>>]
    /\ calls = 0
    /\ ret = NoReturn
    /\ semaphore = 0
    /\ info_tasks = NoTasks
    /\ in_flight = NoRequests
    /\ repo_files = NoFiles
    /\ submitted = <<>>

EnrichNext ==
    \/ \E repo_names \in SUBSET EnrichRepos : get_multiple_repositories_info(1, repo_names)
    \/ \E n \in EnrichRepos : AcquireSemaphore(n)
    \/ \E n \in EnrichRepos : ReleaseSemaphore(n)
    \/ GatherInfo(1)

\* One call of get_multiple_repositories_info after another, the tasks of a
\* call interleaved in any order.
EnrichSpec == EnrichInit /\ [][EnrichNext]_vars

(* ------------------- the order of entry to the semaphore -------------- *)

\* The repo_batch lists handed to get_multiple_repositories_info: more names
\* than the semaphore admits, in two orders, and fewer.
QueueLists ==
    {<<"a", "b", "c", "d", "e">>, <<"e", "c", "a", "d", "b">>, <<"b", "a">>}

\* The position of a name in a list of distinct names.
IndexOf(list, n) == CHOOSE i \in DOMAIN list : list[i] = n

\* The task made last among those still outside the semaphore.
LastWaiter(list, tasks) ==
    LET waiting == {i \in DOMAIN list : tasks[list[i]].state = "pending"}
    IN list[CHOOSE i \in waiting : \A j \in waiting : j <= i]

\* The task that enters the semaphore next.  gather schedules the tasks in
\* the order of the list comprehension and each runs up to `async with
\* semaphore` before any of them is resumed, so the tasks reach acquire() in
\* that order: the first max_concurrent take a slot, the others are appended
\* to the semaphore's deque of waiters, and release() wakes the leftmost.
next_waiter(list, tasks) ==
    LET waiting == {i \in DOMAIN list : tasks[list[i]].state = "pending"}
    IN list[CHOOSE i \in waiting : \A j \in waiting : i <= j]

QueueFrame ==
    UNCHANGED <<store, ghRemote, cache, now, sonar, pc, log, calls, file_cache,
                ret, in_flight, repo_files>>

\* semaphore = asyncio.Semaphore(max_concurrent);
\* tasks = [get_repo_info_with_semaphore(repo_name) for repo_name in repo_names]
SubmitBatch(p, repo_names) ==
    /\ info_tasks = NoTasks
    /\ semaphore' = MaxConcurrent
    /\ submitted' = repo_names
    /\ info_tasks' = [n \in Range(repo_names) |-> InfoTask("pending", DefaultInfo)]
    /\ ctx' = [ctx EXCEPT ![p].repo_info_dict = EmptyDict]
    /\ QueueFrame

\* async with semaphore: the next task enters when a slot is free.
EnterSemaphore ==
    /\ TasksIn("pending") # {}
    /\ ~locked(semaphore)
    /\ LET n == next_waiter(submitted, info_tasks)
       IN info_tasks' = [info_tasks EXCEPT ![n].state = "running"]
    /\ semaphore' = semaphore - 1
    /\ UNCHANGED <<ctx, submitted>>
    /\ QueueFrame

QueueNext ==
    \/ \E repo_names \in QueueLists : SubmitBatch(1, repo_names)
    \/ EnterSemaphore
    \/ \E n \in EnrichRepos : ReleaseSemaphore(n)
    \/ GatherInfo(1)

\* Batches of get_multiple_repositories_info, the tasks entering the
\* semaphore in the order asyncio admits them.
QueueSpec == EnrichInit /\ [][QueueNext]_vars

(* ------------------ requests in flight during a batch ----------------- *)

\* The repositories of a batch: one more than the semaphore admits.
FanOutRepos == {"a", "b", "c", "d"}

\* Two requests per category and repository.
IssuedTwice(category) == 2

\* The requests of a category that get_repository_complete_info sends for one
\* repository when nothing is cached: its gather starts the four adapters
\* together, and check_repository_files_batch gathers one
\* get_repository_file_content per file of files_to_check.
IssuedCalls(category) ==
    IF category = "file_content" THEN Len(files_to_check) ELSE 1

RECURSIVE SumOver(_, _)
SumOver(f, S) ==
    IF S = {} THEN 0
    ELSE LET n == CHOOSE x \in S : TRUE
         IN f[n] + SumOver(f, S \ {n})

\* The requests of a category in flight to the source host.
InFlight(category) ==
    SumOver([n \in DOMAIN in_flight |-> in_flight[n][category]], DOMAIN in_flight)

FanOutFrame ==
    UNCHANGED <<store, ghRemote, cache, now, sonar, pc, ctx, log, calls,
                file_cache, ret, repo_files, submitted>>

\* get_multiple_repositories_info(repo_batch, max_concurrent=3): the
\* semaphore and one task per repository.
StartFanOut ==
    /\ info_tasks = NoTasks
    /\ semaphore' = MaxConcurrent
    /\ info_tasks' = [n \in FanOutRepos |-> InfoTask("pending", DefaultInfo)]
    /\ in_flight' = [n \in FanOutRepos |-> [k \in Categories |-> 0]]
    /\ FanOutFrame

\* A task enters `async with semaphore` and get_repository_complete_info
\* gathers the four adapters: each sends its requests and waits.
StartCompleteInfo(n) ==
    /\ n \in TasksIn("pending")
    /\ ~locked(semaphore)
    /\ semaphore' = semaphore - 1
    /\ info_tasks' = [info_tasks EXCEPT ![n].state = "running"]
    /\ in_flight' = [in_flight EXCEPT ![n] = [k \in Categories |-> IssuedCalls(k)]]
    /\ FanOutFrame

\* The source host answers one request (with a result or an error).
RequestReturns(n, category) ==
    /\ n \in TasksIn("running")
    /\ in_flight[n][category] > 0
    /\ in_flight' = [in_flight EXCEPT ![n][category] = @ - 1]
    /\ UNCHANGED <<semaphore, info_tasks>>
    /\ FanOutFrame

\* Every request of the repository is answered: the gather of
\* get_repository_complete_info returns and the task leaves the semaphore.
FinishCompleteInfo(n) ==
    /\ n \in TasksIn("running")
    /\ \A k \in Categories : in_flight[n][k] = 0
    /\ info_tasks' = [info_tasks EXCEPT ![n].state = "done"]
    /\ semaphore' = semaphore + 1
    /\ UNCHANGED in_flight
    /\ FanOutFrame

\* Every task has returned: the batch's gather returns.
EndFanOut ==
    /\ info_tasks # NoTasks
    /\ TasksIn("done") = DOMAIN info_tasks
    /\ info_tasks' = NoTasks
    /\ in_flight' = NoRequests
    /\ semaphore' = 0
    /\ FanOutFrame

FanOutNext ==
    \/ StartFanOut
    \/ \E n \in FanOutRepos : StartCompleteInfo(n)
    \/ \E n \in FanOutRepos, category \in Categories : RequestReturns(n, category)
    \/ \E n \in FanOutRepos : FinishCompleteInfo(n)
    \/ EndFanOut

\* One batch of get_multiple_repositories_info with nothing cached, the
\* requests of its repositories answered in any order.
FanOutSpec == EnrichInit /\ [][FanOutNext]_vars

(* -------------------- check_repository_files_batch -------------------- *)

\* The repository whose files are examined.
FilesRepo == "a"

\* self._set_cache_data(cache_key, results, 30)
FilesBatchTtl == 30

\* The annotation keys check_repository_files_batch searches a catalog
\* descriptor for.
ProjectSlug == "github.com/project-slug"
GraphToken == "datadoghq.com/graph-token"

\* A decoded file is the sequence of its lines; a line is an annotation key
\* or other text.  What a mkdocs file and a catalog descriptor may be: absent
\* (404), empty, text without a key, text with one key or with both.
MkdocsContents == {None, Some(<<>>), Some(<<"site_name: a">>)}

CatalogContents ==
    {None, Some(<<>>), Some(<<"kind: Component">>),
     Some(<<"kind: Component", ProjectSlug>>), Some(<<GraphToken>>),
     Some(<<ProjectSlug, "kind: Component", GraphToken>>)}

\* The files a repository may hold.
RepoFiles ==
    {f \in [Range(files_to_check) -> MkdocsContents \cup CatalogContents] :
        /\ f["mkdocs.yml"] \in MkdocsContents
        /\ f["mkdocs.yaml"] \in MkdocsContents}

\* `marker in catalog_content`
InText(marker, content) == Contains(content, marker)

\* `if catalog_content and isinstance(catalog_content, str)`: a file that is
\* there and is not empty.
Truthy(content) == content # None /\ content.val # <<>>

\* The descriptor read when both are there is catalog-info.yml.
CatalogContentYmlFirst(catalog_yaml, catalog_yml) ==
    IF catalog_yml # None THEN catalog_yml ELSE catalog_yaml

\* catalog_content = catalog_yaml if catalog_yaml is not None else catalog_yml
catalog_content(catalog_yaml, catalog_yml) ==
    IF catalog_yaml # None THEN catalog_yaml ELSE catalog_yml

\* file_contents[i] if not isinstance(file_contents[i], Exception) else None
ContentOrNone(r) == IF r.ok THEN r.value ELSE None

\* The results dictionary check_repository_files_batch derives from what the
\* gather of the four fetches gave (lines 193-220).
files_batch_results(file_contents) ==
    LET mkdocs_yml   == ContentOrNone(file_contents[1])
        mkdocs_yaml  == ContentOrNone(file_contents[2])
        catalog_yaml == ContentOrNone(file_contents[3])
        catalog_yml  == ContentOrNone(file_contents[4])
        content      == catalog_content(catalog_yaml, catalog_yml)
    IN [have_tech_docs |-> mkdocs_yml # None \/ mkdocs_yaml # None,
        have_github_actions_annotations |->
            Truthy(content) /\ InText(ProjectSlug, content.val),
        have_datadog |-> Truthy(content) /\ InText(GraphToken, content.val),
        catalog_content |-> IF Truthy(content) THEN content ELSE None]

\* get_repository_file_content for a file whose content at the source host
\* is `answer`: a cached content is returned; otherwise the host is asked and
\* answers (the content, or None for 404, is cached) or the request fails.
fetch_file_content(fc, t, repo_name, file_path, answer, fails) ==
    LET cache_key == get_cache_key("file_content", repo_name, file_path)
        cached_data == get_cached_data(fc, cache_key, t)
    IN IF cached_data # None
       THEN [hit |-> TRUE, ok |-> TRUE, value |-> cached_data]
       ELSE IF fails THEN [hit |-> FALSE, ok |-> FALSE, value |-> None]
       ELSE [hit |-> FALSE, ok |-> TRUE, value |-> answer]

\* The file namespace after the fetches of a batch: every content fetched
\* from the source host is stored under the key of its file.
FileCacheAfter(fc, t, repo_name, file_contents, files) ==
    LET fetched == {i \in DOMAIN files_to_check :
                        ~file_contents[i].hit /\ file_contents[i].ok}
        key(i) == get_cache_key("file_content", repo_name, files_to_check[i])
    IN [k \in DOMAIN fc \cup {key(i) : i \in fetched} |->
          IF \E i \in fetched : key(i) = k
          THEN CacheEntry(files[files_to_check[CHOOSE i \in fetched : key(i) = k]],
                          FileTtl, t)
          ELSE fc[k]]

FilesFrame ==
    UNCHANGED <<store, ghRemote, now, sonar, pc, ctx, log, calls, semaphore,
                info_tasks, in_flight, repo_files, submitted>>

\* await self.check_repository_files_batch(repo_name): a cached result is
\* returned; otherwise the four files are fetched together, a failed fetch
\* counts as an absent file, and the result is cached.
CheckRepositoryFilesBatch(repo_name) ==
    LET cache_key == get_cache_key("files_batch", repo_name, "")
        cached_data == get_cached_data(cache, cache_key, now)
    IN /\ IF cached_data # None
          THEN /\ ret' = [op |-> "check_repository_files_batch", hit |-> TRUE,
                          failing |-> {}, value |-> cached_data.val]
               /\ UNCHANGED <<cache, file_cache>>
          ELSE \E failing \in SUBSET Range(files_to_check) :
                 LET file_contents ==
                         [i \in DOMAIN files_to_check |->
                             fetch_file_content(file_cache, now, repo_name,
                                                files_to_check[i],
                                                repo_files[files_to_check[i]],
                                                files_to_check[i] \in failing)]
                     results == files_batch_results(file_contents)
                 IN /\ file_cache' = FileCacheAfter(file_cache, now, repo_name,
                                                    file_contents, repo_files)
                    /\ cache' = set_cache_data(cache, cache_key, Some(results),
                                               FilesBatchTtl, now)
                    /\ ret' = [op |-> "check_repository_files_batch",
                               hit |-> FALSE, failing |-> failing,
                               value |-> results]
       /\ FilesFrame

FilesInit ==
    /\ store = <<>>
    /\ ghRemote = <<>>
    /\ cache = EmptyCache
    /\ file_cache = EmptyCache
    /\ now = 0
    /\ sonar = TRUE
    /\ pc = [p \in Tasks |-> "idle"]
    /\ ctx = [p \in Tasks |-> FreshContext]
    /\ log = [p \in Tasks |-> <<>>]
    /\ calls = 0
    /\ ret = NoReturn
    /\ semaphore = 0
    /\ info_tasks = NoTasks
    /\ in_flight = NoRequests
    /\ repo_files \in RepoFiles
    /\ submitted = <<>>

FilesNext == CheckRepositoryFilesBatch(FilesRepo)

\* The file check of one repository, called again and again, for every
\* combination of the four files.
FilesSpec == FilesInit /\ [][FilesNext]_vars

(* -------------------- get_repository_complete_info -------------------- *)

\* The repositories of a batch that is enriched with all of its facts.
InfoRepos == {"a", "c"}

\* The logins GET /repos/{org}/{repo}/contributors lists.
HostContributors == [n \in InfoRepos |-> IF n = "a" THEN <<"ana">> ELSE <<"bo", "ana">>]

\* The repositories the code search finds a sonarqube.org key in.
SonarAnnotated == {"c"}

\* The marker files of the two repositories.
HostFiles ==
    [n \in InfoRepos |->
        [f \in Range(files_to_check) |->
            CASE n = "a" /\ f = "mkdocs.yml" -> Some(<<"site_name: a">>)
              [] n = "a" /\ f = "catalog-info.yaml" ->
                    Some(<<"kind: Component", ProjectSlug>>)
              [] n = "c" /\ f = "catalog-info.yml" -> Some(<<GraphToken>>)
              [] OTHER -> None]]

\* One failed fetch makes every fact of the repository its default.
CompleteInfoAllOrNothing(name, failed) ==
    LET fails == failed # {}
        files_info == files_batch_results(
                          [i \in DOMAIN files_to_check |->
                              [ok |-> ~fails,
                               value |-> HostFiles[name][files_to_check[i]]]])
    IN [contributors |-> IF fails THEN <<>> ELSE HostContributors[name],
        have_github_actions |-> ~fails /\ name \in ActionsRun,
        have_tech_docs |-> files_info.have_tech_docs,
        have_github_actions_annotations |-> files_info.have_github_actions_annotations,
        have_datadog |-> files_info.have_datadog,
        have_sonar |-> ~fails /\ name \in SonarAnnotated]

\* GithubClient.get_repository_complete_info: final_result when the requests
\* of the categories in `failed` fail.  Each adapter's result is taken from
\* the gather on its own, its default standing in for an exception.
get_repository_complete_info(name, failed) ==
    LET files_info == files_batch_results(
                          [i \in DOMAIN files_to_check |->
                              [ok |-> "file_content" \notin failed,
                               value |-> HostFiles[name][files_to_check[i]]]])
    IN [contributors |->
            IF "contributors" \in failed THEN <<>> ELSE HostContributors[name],
        have_github_actions |->
            IF "github_actions" \in failed THEN FALSE ELSE name \in ActionsRun,
        have_tech_docs |-> files_info.have_tech_docs,
        have_github_actions_annotations |-> files_info.have_github_actions_annotations,
        have_datadog |-> files_info.have_datadog,
        have_sonar |-> IF "sonar" \in failed THEN FALSE ELSE name \in SonarAnnotated]

InfoFrame ==
    UNCHANGED <<store, ghRemote, cache, now, sonar, pc, log, calls, file_cache,
                in_flight, repo_files, submitted>>

\* get_repository_complete_info returns to get_repo_info_with_semaphore, which
\* leaves `async with semaphore` with (repo_name, info).
ReturnCompleteInfo(n) ==
    /\ n \in TasksIn("running")
    /\ \E failed \in SUBSET Categories :
         LET info == get_repository_complete_info(n, failed)
         IN /\ info_tasks' = [info_tasks EXCEPT ![n] = InfoTask("done", info)]
            /\ ret' = [op |-> "get_repository_complete_info", repo_name |-> n,
                       failed |-> failed, value |-> info]
    /\ semaphore' = semaphore + 1
    /\ UNCHANGED ctx
    /\ InfoFrame

InfoNext ==
    \/ \E repo_names \in SUBSET InfoRepos : get_multiple_repositories_info(1, repo_names)
    \/ \E n \in InfoRepos : AcquireSemaphore(n)
    \/ \E n \in InfoRepos : ReturnCompleteInfo(n)
    \/ GatherInfo(1)

\* Batches of get_multiple_repositories_info with every fact of a repository
\* fetched or failed on its own.
InfoSpec == EnrichInit /\ [][InfoNext]_vars

(* ------------------------------ claims -------------------------------- *)

NamesOf(s) == [i \in DOMAIN s |-> s[i].name]

IsSync(p) == ctx[p].op = "sync"

\* The events of a log with the given operation, in order.
EventsOf(l, op) == SelectSeq(l, LAMBDA e : e.op = op)

\* C1: the additions a sync call computes and returns are exactly the names
\* of the source-host list it saw that are not in the stored list it saw, the
\* removals exactly the stored names not in the source-host list, and no name
\* is in both.
C1_DiffIsSetDifference ==
    \A p \in Tasks :
        IsSync(p) /\ pc[p] \notin {"fetching", "diffing"} =>
            LET A == Range(ctx[p].repositories_in_github)
                B == Range(ctx[p].repositories_in_db)
                returned == pc[p] \in {"short_circuit_done", "done"}
                additions == IF returned THEN Range(ctx[p].result.newRepositories)
                             ELSE Range(ctx[p].new_repos)
                removals == IF returned THEN Range(ctx[p].result.deletedRepositories)
                            ELSE Range(ctx[p].delete_repos)
            IN /\ additions = A \ B
               /\ removals = B \ A
               /\ additions \cap removals = {}
               /\ Range(ctx[p].new_repos) = A \ B
               /\ Range(ctx[p].delete_repos) = B \ A

\* C1 witness: a sync call has returned both additions and removals.
C1_Witness ==
    \E p \in Tasks :
        /\ IsSync(p) /\ pc[p] = "done"
        /\ ctx[p].result.newRepositories # <<>>
        /\ ctx[p].result.deletedRepositories # <<>>

\* The short circuit with a given status tag: when the source-host names and
\* the stored names a sync call saw are the same set, the call has made no
\* collaborator call and no store write, and once past the diff it has
\* returned that status with empty lists and zero counts.
ShortCircuit(status) ==
    \A p \in Tasks :
        (/\ IsSync(p)
         /\ pc[p] # "fetching"
         /\ Range(ctx[p].repositories_in_github) = Range(ctx[p].repositories_in_db))
        => /\ log[p] = <<>>
           /\ store = ctx[p].store_before
           /\ pc[p] \in {"diffing", "short_circuit_done"}
           /\ pc[p] = "short_circuit_done" =>
                 ctx[p].result = SyncRepository(status, <<>>, <<>>, 0, 0)

\* C2 (as amended): with equal name sets sync returns status "No changes"
\* (capital N), empty lists and zero counts, and makes no store write and no
\* enrichment or quality-platform call.
C2_NoChangesShortCircuit == ShortCircuit("No changes")

\* C2 (as stated): the same with the status tag "no changes".
C2_AsStated == ShortCircuit("no changes")

\* C2 witness: a sync call with a non-empty source-host list and SonarCloud
\* configured has returned through the short circuit.
C2_Witness ==
    \E p \in Tasks :
        /\ IsSync(p) /\ pc[p] = "short_circuit_done"
        /\ ctx[p].repositories_in_github # <<>>
        /\ sonar

\* C3 (as stated): no two documents of the collection share a name.
C3_UniqueNames == \A n \in Names : CountName(store, n) <= 1

\* C4 (as stated): every document a sync call has deleted has a name that is
\* not in the source host's repository list.
C4_DeletesOnlyAbsent ==
    \A p \in Tasks :
        IsSync(p) =>
            \A j \in DOMAIN log[p] :
                log[p][j].op = "delete_one" /\ log[p][j].ok =>
                    ~Contains(ghRemote, log[p][j].names[1])

\* C5 (as stated): a name of which the collection holds more documents than
\* when the call began was not stored when the call began and is in the
\* source-host list the call obtained.
C5_CreatesOnlyNew ==
    \A p \in Tasks :
        ctx[p].op # "none" =>
            \A n \in Names :
                CountName(store, n) > CountName(ctx[p].store_before, n) =>
                    /\ CountName(ctx[p].store_before, n) = 0
                    /\ Contains(ctx[p].repositories_in_github, n)

\* C6: a sync call raises only out of a failed store write (delete_one or
\* insert_many), never out of a failed source fetch; a source whose fetch
\* failed counts as the empty list.
C6_SourceFailuresTolerated ==
    \A p \in Tasks :
        IsSync(p) =>
            /\ pc[p] = "failed" =>
                  /\ ctx[p].error \in {"delete_one", "insert_many"}
                  /\ log[p] # <<>>
                  /\ log[p][Len(log[p])] = [log[p][Len(log[p])] EXCEPT
                                               !.op = ctx[p].error, !.ok = FALSE]
            /\ "db" \in ctx[p].failed => ctx[p].repositories_in_db = <<>>
            /\ "github" \in ctx[p].failed => ctx[p].repositories_in_github = <<>>
            /\ "backstage" \in ctx[p].failed => ctx[p].backstage_repos = <<>>
            /\ ctx[p].failed # {} => pc[p] # "fetching"

\* C6 witness: a sync call whose source-host fetch and catalog fetch both
\* failed has gone through the diff and returned.
C6_Witness ==
    \E p \in Tasks :
        /\ IsSync(p) /\ pc[p] = "done"
        /\ {"github", "backstage"} \subseteq ctx[p].failed

\* C7: in a sync call no delete follows an enrichment, a quality-platform
\* check or an insert, and when the first batch is being processed every
\* removal has been deleted.
C7_DeletesBeforeBatches ==
    \A p \in Tasks :
        IsSync(p) =>
            /\ \A j, k \in DOMAIN log[p] :
                  (j < k /\ log[p][j].op \in {"enrich", "sonarcloud", "insert_many"})
                      => log[p][k].op # "delete_one"
            /\ (\/ pc[p] \in {"enriching", "writing", "pausing"}
                \/ \E j \in DOMAIN log[p] : log[p][j].op \in {"enrich", "insert_many"})
                  => /\ ctx[p].deleted = Len(ctx[p].delete_repos)
                     /\ [j \in DOMAIN EventsOf(log[p], "delete_one") |->
                            EventsOf(log[p], "delete_one")[j].names[1]]
                        = ctx[p].delete_repos

\* C7 witness: a sync call with removals and additions is inserting a batch.
C7_Witness ==
    \E p \in Tasks :
        /\ IsSync(p) /\ pc[p] = "writing"
        /\ Len(ctx[p].delete_repos) >= 2

\* C8: between the enrichment of a batch and the enrichment of a later batch
\* of the same sync call, the bulk insert of the earlier batch has completed.
C8_InsertBeforeNextEnrich ==
    \A p \in Tasks :
        IsSync(p) =>
            \A j, k \in DOMAIN log[p] :
                (j < k /\ log[p][j].op = "enrich" /\ log[p][k].op = "enrich") =>
                    \E m \in DOMAIN log[p] :
                        /\ j < m /\ m < k
                        /\ log[p][m] = Event("insert_many", log[p][j].names, TRUE)

\* C8 witness: a sync call has enriched its second batch.
C8_Witness ==
    \E p \in Tasks :
        /\ IsSync(p)
        /\ Len(EventsOf(log[p], "enrich")) >= 2

\* ceil(n / b)
Ceil(n, b) == (n + b - 1) \div b

\* The k-th batch of b names of a list, the last one holding the remainder.
Chunk(new_repos, b, k) ==
    [j \in 1..(IF k * b <= Len(new_repos) THEN b ELSE Len(new_repos) - (k - 1) * b)
        |-> new_repos[(k - 1) * b + j]]

\* C9: a sync call that has returned "Updated" with n additions and batch size
\* b has enriched and inserted exactly ceil(n/b) batches, the k-th holding the
\* k-th b names in order and the last the remainder, and has paused exactly
\* once after every batch but the last.
C9_ChunksAndPauses ==
    \A p \in Tasks :
        IsSync(p) /\ pc[p] = "done" =>
            LET new_repos == ctx[p].result.newRepositories
                b == ctx[p].batch_size
                m == Ceil(Len(new_repos), b)
                enriched == EventsOf(log[p], "enrich")
                inserted == EventsOf(log[p], "insert_many")
                batches == SelectSeq(log[p],
                              LAMBDA e : e.op \in {"enrich", "insert_many", "sleep"})
            IN /\ Len(enriched) = m
               /\ Len(inserted) = m
               /\ \A k \in 1..m :
                     /\ enriched[k].names = Chunk(new_repos, b, k)
                     /\ inserted[k] = Event("insert_many", Chunk(new_repos, b, k), TRUE)
               /\ Len(EventsOf(log[p], "sleep")) = (IF m = 0 THEN 0 ELSE m - 1)
               /\ Len(batches) = (IF m = 0 THEN 0 ELSE 3 * m - 1)
               /\ \A j \in DOMAIN batches :
                     batches[j].op = (CASE j % 3 = 1 -> "enrich"
                                        [] j % 3 = 2 -> "insert_many"
                                        [] OTHER     -> "sleep")

\* C9 witness: three additions with batch size 2 (batches of 2 and 1, one
\* pause) have been inserted and returned.
C9_Witness ==
    \E p \in Tasks :
        /\ IsSync(p) /\ pc[p] = "done"
        /\ Len(ctx[p].result.newRepositories) = 3
        /\ ctx[p].batch_size = 2

\* C10: when a bulk insert of a sync call fails, the call raises, the failed
\* insert is the last collaborator call it makes, and the collection holds
\* what it held when the call began without the removals, followed by the
\* batches inserted before the failed one.
C10_FailedInsertAborts ==
    \A p \in Tasks :
        IsSync(p) =>
            \A j \in DOMAIN log[p] :
                log[p][j].op = "insert_many" /\ ~log[p][j].ok =>
                    LET c == ctx[p]
                        kept == SelectSeq(NamesOf(c.store_before),
                                    LAMBDA n : ~Contains(c.delete_repos, n))
                        before == EventsOf(SubSeq(log[p], 1, j - 1), "insert_many")
                    IN /\ pc[p] = "failed"
                       /\ c.result = NoResult
                       /\ j = Len(log[p])
                       /\ \A k \in DOMAIN before : before[k].ok
                       /\ Len(before) + 1 = Len(EventsOf(log[p], "insert_many"))
                       /\ NamesOf(store) = kept \o SubSeq(c.new_repos, 1, c.i)
                       /\ c.i = Len(before) * c.batch_size

\* C10 witness: the insert of a second batch has failed in a call that had
\* deleted removals.
C10_Witness ==
    \E p \in Tasks :
        /\ IsSync(p) /\ pc[p] = "failed" /\ ctx[p].error = "insert_many"
        /\ ctx[p].i > 0
        /\ ctx[p].delete_repos # <<>>

\* The quality-platform status a stored document carries, None when the
\* document has no such field.
QualityPlatformStatus(doc) ==
    IF "sonarcloud" \in DOMAIN doc THEN Some(doc.sonarcloud.active) ELSE None

\* The end-to-end example: task p runs a sync call that began with the store
\* holding a and b, obtained a and c from the source host, c from the catalog,
\* and no failure; the quality platform has no project c.
C11_Example(p) ==
    /\ IsSync(p)
    /\ Range(NamesOf(ctx[p].store_before)) = {"a", "b"}
    /\ Len(ctx[p].store_before) = 2
    /\ Range(ctx[p].repositories_in_github) = {"a", "c"}
    /\ Contains(ctx[p].backstage_repos, "c")
    /\ ctx[p].failed = {}
    /\ "c" \notin SonarProjects

\* The step that ends the example: the call returns removals [b] and
\* additions [c]; b is gone, the document of a is the one stored before, and
\* one document c is stored whose source-host status is the CI result of its
\* enrichment, whose catalog status is active and whose quality-platform
\* status is `quality`.
C11_Step(quality) ==
    \A p \in Tasks :
        (C11_Example(p) /\ pc[p] = "writing" /\ pc'[p] = "done") =>
            /\ ctx'[p].result.deletedRepositories = <<"b">>
            /\ ctx'[p].result.newRepositories = <<"c">>
            /\ CountName(store', "b") = 0
            /\ CountName(store', "a") = 1
            /\ \A i \in DOMAIN store' :
                  store'[i].name = "a" =>
                      \E j \in DOMAIN ctx[p].store_before :
                          store'[i] = ctx[p].store_before[j]
            /\ CountName(store', "c") = 1
            /\ \A i \in DOMAIN store' :
                  store'[i].name = "c" =>
                      /\ store'[i].github =
                             InfoOf(ctx[p].repo_info_dict, "c").have_github_actions
                      /\ store'[i].backstage = TRUE
                      /\ QualityPlatformStatus(store'[i]) = quality

\* C11 (as stated): in the end-to-end example sync returns removals [b] and
\* additions [c], deletes b, leaves a unchanged and inserts a record c whose
\* source-host status is its CI result, whose catalog status is active and
\* whose quality-platform status is inactive.
C11_EndToEnd == [][C11_Step(Some(FALSE))]_vars

\* The same example with the record c carrying no quality-platform status.
C11_WithoutQualityStatus == [][C11_Step(None)]_vars

\* C12 (as stated): a sync call that follows a sync call that returned, with
\* nothing else run in between, returns through the no-changes short circuit
\* with zero counts.
C12_SecondRunNoChanges ==
    \A p \in Tasks :
        (/\ IsSync(p)
         /\ ctx[p].previous = "sync_returned"
         /\ pc[p] \in {"short_circuit_done", "done"})
        => /\ pc[p] = "short_circuit_done"
           /\ ctx[p].result.newRepositoriesCount = 0
           /\ ctx[p].result.deletedRepositoriesCount = 0

IsSyncOne(p) == ctx[p].op = "sync_single"

\* Task p runs a syncOne call that obtained the source-host list and did not
\* find its name in it.
AbsentAtHost(p) ==
    /\ IsSyncOne(p)
    /\ pc[p] # "validating"
    /\ ctx[p].error # "get_repositories"
    /\ ~Contains(ctx[p].repositories_in_github, ctx[p].repo_name)

\* C13 (as amended): syncOne(name) for a name absent from the source-host list
\* it obtained does not raise: it returns an error result (status "error"
\* and a message) and makes no collaborator call and no store write.
C13_AbsentReturnsError ==
    \A p \in Tasks :
        AbsentAtHost(p) =>
            /\ pc[p] = "not_found"
            /\ ctx[p].result = SingleResult("error")
            /\ ctx[p].error = ""
            /\ log[p] = <<>>
            /\ store = ctx[p].store_before

\* C13 (as stated): for such a name the call raises, with no store read or
\* write.
C13_AbsentRaises ==
    \A p \in Tasks :
        AbsentAtHost(p) =>
            /\ pc[p] = "failed"
            /\ log[p] = <<>>
            /\ store = ctx[p].store_before

\* C13 witness: a syncOne call for a name that is stored but not at the source
\* host has returned.
C13_Witness ==
    \E p \in Tasks :
        /\ AbsentAtHost(p)
        /\ ~Running(p)
        /\ ctx[p].repositories_in_github # <<>>
        /\ CountName(store, ctx[p].repo_name) = 1

\* C14: a syncOne call that has returned for a name in the source-host list
\* reports "created" exactly when the store held no record of that name when
\* the call began and "updated" exactly when it held one; the store then
\* holds a record of that name, as many records of that name as before (one
\* if there was none), and every other record unchanged.
C14_UpsertByName ==
    \A p \in Tasks :
        (IsSyncOne(p) /\ pc[p] \in {"created", "updated"}) =>
            LET name == ctx[p].repo_name
                before == ctx[p].store_before
                others(s) == SelectSeq(s, LAMBDA d : d.name # name)
            IN /\ Contains(ctx[p].repositories_in_github, name)
               /\ ctx[p].result.status = pc[p]
               /\ pc[p] = "created" <=> CountName(before, name) = 0
               /\ pc[p] = "updated" <=> CountName(before, name) > 0
               /\ CountName(store, name) >= 1
               /\ CountName(store, name) =
                      (IF CountName(before, name) = 0 THEN 1 ELSE CountName(before, name))
               /\ others(store) = others(before)
               /\ log[p][Len(log[p])] = Event("replace_one", <<name>>, TRUE)

\* C14 witness: a syncOne call has replaced the record of a name that was
\* stored, after an earlier call.
C14_Witness ==
    \E p \in Tasks :
        /\ IsSyncOne(p) /\ pc[p] = "updated"
        /\ Len(store) >= 2
        /\ calls = 2

(* The claims about the client's cache are checked under CacheSpec, where   *)
(* calls counts the answers of the source host that were cached.            *)

IsLookup(r) ==
    r.op \in {"get_repositories", "have_github_actions", "get_repository_file_content"}

\* The namespace the adapter of a return uses.
Namespace(r) == IF r.op = "get_repository_file_content" THEN file_cache ELSE cache

\* The queries the adapters of CacheSpec make.
CacheQueries ==
    {<<"repositories", "", "">>}
        \cup {<<"github_actions", r, "">> : r \in CacheRepos}
        \cup {<<"file_content", r, f>> : r \in CacheRepos, f \in FilesToCheck}

KeyOf(q) == get_cache_key(q[1], q[2], q[3])

\* What the source host answers to a query.
RemoteAnswer(q) ==
    CASE q[1] = "repositories"   -> Some(ghRemote)
      [] q[1] = "github_actions" -> Some(q[2] \in ActionsRun)
      [] OTHER -> IF <<q[2], q[3]>> \in DOMAIN FileContents
                  THEN Some(FileContents[<<q[2], q[3]>>])
                  ELSE None

\* C15: in every state a lookup of a key whose entry is past its expiry
\* instant is a miss, in the general and in the file-content namespace; an
\* adapter call that found such an entry did not return it, and the lookup
\* did not remove it (after a failed fetch it is still there, still expired).
C15_ExpiredIsMiss ==
    /\ \A k \in DOMAIN cache :
          is_expired(cache[k], now) => get_cached_data(cache, k, now) = None
    /\ \A k \in DOMAIN file_cache :
          is_expired(file_cache[k], now) => get_cached_data(file_cache, k, now) = None
    /\ (IsLookup(ret) /\ ret.found = "expired") =>
          /\ ~ret.hit
          /\ ret.key \in DOMAIN Namespace(ret)
          /\ ~ret.ok => /\ Namespace(ret)[ret.key].data = ret.stored
                        /\ Namespace(ret)[ret.key].expiry < now

\* C15 witness: both namespaces hold an expired entry and a file-content
\* lookup that found one has failed to fetch.
C15_Witness ==
    /\ ret.op = "get_repository_file_content"
    /\ ret.found = "expired"
    /\ ~ret.ok
    /\ ExpiredEntries(cache, now) > 0
    /\ ExpiredEntries(file_cache, now) > 0

\* A value stored under a key is returned as a hit by a lookup before the
\* expiry instant and missed by a lookup after it, for the stored values
\* that satisfy `covered`.
SetThenGet(covered(_)) ==
    (IsLookup(ret) /\ ret.found # "absent" /\ covered(ret.stored)) =>
        /\ ret.found = "fresh" => (ret.hit /\ ret.value = ret.stored)
        /\ ret.found = "expired" => ~ret.hit

\* C16 (as stated): every value an adapter stores (a list, a boolean, a file
\* content, the file-absent value) is returned as a hit before the expiry
\* instant and missed after it.
C16_SetThenGet == SetThenGet(LAMBDA v : TRUE)

\* The same for the stored values other than the file-absent value.
C16_ExceptFileAbsent == SetThenGet(LAMBDA v : v # None)

\* C17: two different queries of the adapters never form the same cache
\* key; every entry of either namespace is the entry of one query, and a hit
\* returns the answer to the query that was asked.
C17_KeysInjective ==
    /\ \A q1, q2 \in CacheQueries : q1 # q2 => KeyOf(q1) # KeyOf(q2)
    /\ \A k \in DOMAIN cache \cup DOMAIN file_cache :
          Cardinality({q \in CacheQueries : KeyOf(q) = k}) = 1
    /\ IsLookup(ret) =>
          /\ ret.key = KeyOf(ret.query)
          /\ ret.hit => ret.value = RemoteAnswer(ret.query)

\* C17 witness: the content of one file of a repository is returned from the
\* cache while the entry of another file of that repository is cached too.
C17_Witness ==
    /\ ret.op = "get_repository_file_content"
    /\ ret.hit
    /\ \E f \in FilesToCheck :
          /\ f # ret.query[3]
          /\ KeyOf(<<"file_content", ret.query[2], f>>) \in DOMAIN file_cache

\* C18: once clear has returned both namespaces are empty, so every lookup in
\* either namespace is a miss until an adapter stores the key again; a lookup
\* that finds no entry is a miss.
C18_ClearEmptiesBoth ==
    /\ ret.op = "clear" =>
          /\ cache = EmptyCache
          /\ file_cache = EmptyCache
          /\ \A q \in CacheQueries :
                /\ get_cached_data(cache, KeyOf(q), now) = None
                /\ get_cached_data(file_cache, KeyOf(q), now) = None
    /\ (IsLookup(ret) /\ ret.found = "absent") => ~ret.hit

\* C18 witness: clear has returned after both namespaces held entries.
C18_Witness ==
    /\ ret.op = "clear"
    /\ ret.value.cache_entries > 0
    /\ ret.value.file_cache_entries > 0

\* A step that ends in the return of a stats call, or of an adapter call that
\* stored nothing, is observational.
C19_Step ==
    /\ ret'.op = "stats" =>
          LET v == ret'.value
          IN /\ cache' = cache
             /\ file_cache' = file_cache
             /\ v.cache_entries = Cardinality(DOMAIN cache)
             /\ v.file_cache_entries = Cardinality(DOMAIN file_cache)
             /\ v.total_entries = v.cache_entries + v.file_cache_entries
             /\ 0 <= v.expired_entries
             /\ v.expired_entries <= v.total_entries
    /\ (IsLookup(ret') /\ (ret'.hit \/ ~ret'.ok)) =>
          /\ cache' = cache
          /\ file_cache' = file_cache

\* C19: a stats call, and an adapter call that stores nothing (a hit, or a
\* miss whose fetch failed), leave both namespaces as they were; stats
\* reports the two per-namespace counts, their sum as the total, and an
\* expired count between 0 and the total.
C19_Observational == [][C19_Step]_vars

\* C19 witness: stats has reported entries in both namespaces, some of them
\* expired and some not.
C19_Witness ==
    /\ ret.op = "stats"
    /\ ret.value.cache_entries > 0
    /\ ret.value.file_cache_entries > 0
    /\ ret.value.expired_entries > 0
    /\ ret.value.expired_entries < ret.value.total_entries

\* C20: while get_multiple_repositories_info runs a batch with concurrency
\* MaxConcurrent, at most MaxConcurrent of its per-repository tasks are
\* inside the semaphore, and the free slots are those the running tasks
\* leave.
C20_AtMostNRunning ==
    info_tasks # NoTasks =>
        /\ Cardinality(TasksIn("running")) <= MaxConcurrent
        /\ semaphore >= 0
        /\ semaphore + Cardinality(TasksIn("running")) = MaxConcurrent

\* C20 witness: MaxConcurrent tasks of a batch are running, one has returned
\* and another is waiting.
C20_Witness ==
    /\ Cardinality(TasksIn("running")) = MaxConcurrent
    /\ TasksIn("pending") # {}
    /\ TasksIn("done") # {}

\* C21 (as stated): during a batch with concurrency MaxConcurrent, no category
\* has more than MaxConcurrent requests in flight.
C21_PerCategoryAtMostN ==
    \A k \in Categories : InFlight(k) <= MaxConcurrent

\* C21: during a batch with concurrency MaxConcurrent at most MaxConcurrent
\* requests for contributors, for CI runs and for the quality-gate search are
\* in flight, and at most 4 * MaxConcurrent requests for file contents: the
\* semaphore admits MaxConcurrent repositories and each of them fetches its
\* four marker files together.
C21_AtMostNRepositories ==
    /\ \A k \in Categories \ {"file_content"} : InFlight(k) <= MaxConcurrent
    /\ InFlight("file_content") <= 4 * MaxConcurrent
    /\ \A n \in DOMAIN in_flight :
          (\E k \in Categories : in_flight[n][k] > 0) => n \in TasksIn("running")

\* C21 witness: four times MaxConcurrent file-content requests are in flight
\* while a repository of the batch waits for the semaphore.
C21_Witness ==
    /\ InFlight("file_content") = 4 * MaxConcurrent
    /\ InFlight("contributors") = MaxConcurrent
    /\ TasksIn("pending") # {}

\* What the file check saw of a file: its content, None when it is absent or
\* its fetch failed.
Seen(file_path) ==
    IF file_path \in ret.failing THEN None ELSE repo_files[file_path]

\* The descriptors, of those the check saw, that hold a marker.
DescriptorsWith(marker) ==
    {f \in {"catalog-info.yaml", "catalog-info.yml"} :
        Seen(f) # None /\ InText(marker, Seen(f).val)}

\* The descriptor the check examines: catalog-info.yaml when it is there,
\* catalog-info.yml otherwise.
Examined ==
    IF Seen("catalog-info.yaml") # None THEN "catalog-info.yaml" ELSE "catalog-info.yml"

\* C24 (as stated): when every fetch succeeded, documentation-present is true
\* iff a mkdocs variant exists, and each annotation flag is true iff some
\* catalog descriptor of the repository holds its marker.
C24_AnyDescriptor ==
    (ret.op = "check_repository_files_batch" /\ ~ret.hit /\ ret.failing = {}) =>
        /\ ret.value.have_tech_docs <=>
              (repo_files["mkdocs.yml"] # None \/ repo_files["mkdocs.yaml"] # None)
        /\ ret.value.have_github_actions_annotations <=>
              DescriptorsWith(ProjectSlug) # {}
        /\ ret.value.have_datadog <=> DescriptorsWith(GraphToken) # {}

\* C24: for every combination of the four files, a file whose fetch failed
\* counting as absent, documentation-present is true iff a mkdocs variant
\* exists, and each annotation flag is true iff the descriptor examined
\* (catalog-info.yaml when it exists, catalog-info.yml otherwise) holds the
\* flag's marker.
C24_ExaminedDescriptor ==
    (ret.op = "check_repository_files_batch" /\ ~ret.hit) =>
        /\ ret.value.have_tech_docs <=>
              (Seen("mkdocs.yml") # None \/ Seen("mkdocs.yaml") # None)
        /\ ret.value.have_github_actions_annotations <=>
              Examined \in DescriptorsWith(ProjectSlug)
        /\ ret.value.have_datadog <=> Examined \in DescriptorsWith(GraphToken)

\* C24 witness: both descriptors exist, every fetch succeeded, only
\* catalog-info.yml holds the CI-project marker and the check has answered
\* that the annotation is missing.
C24_Witness ==
    /\ ret.op = "check_repository_files_batch"
    /\ ~ret.hit
    /\ ret.failing = {}
    /\ repo_files["catalog-info.yaml"] # None
    /\ DescriptorsWith(ProjectSlug) = {"catalog-info.yml"}
    /\ ~ret.value.have_github_actions_annotations
    /\ ret.value.have_tech_docs

\* The facts of an info that the request of a category decides.
FactsOf(category, info) ==
    CASE category = "contributors" -> <<info.contributors>>
      [] category = "github_actions" -> <<info.have_github_actions>>
      [] category = "sonar" -> <<info.have_sonar>>
      [] OTHER -> <<info.have_tech_docs, info.have_github_actions_annotations,
                    info.have_datadog>>

\* What the source host holds for a category, and the category's default.
FetchedFacts(category, n) ==
    CASE category = "contributors" -> <<HostContributors[n]>>
      [] category = "github_actions" -> <<n \in ActionsRun>>
      [] category = "sonar" -> <<n \in SonarAnnotated>>
      [] OTHER -> <<HostFiles[n]["mkdocs.yml"] # None \/ HostFiles[n]["mkdocs.yaml"] # None,
                    \E f \in {"catalog-info.yaml", "catalog-info.yml"} :
                        HostFiles[n][f] # None /\ InText(ProjectSlug, HostFiles[n][f].val),
                    \E f \in {"catalog-info.yaml", "catalog-info.yml"} :
                        HostFiles[n][f] # None /\ InText(GraphToken, HostFiles[n][f].val)>>

DefaultFacts(category) ==
    CASE category = "contributors" -> <<(<<>>)>>
      [] category \in {"github_actions", "sonar"} -> <<FALSE>>
      [] OTHER -> <<FALSE, FALSE, FALSE>>

C22_Step ==
    /\ (ret' # ret /\ ret'.op = "get_repository_complete_info") =>
          /\ \A k \in Categories :
                FactsOf(k, ret'.value) =
                    IF k \in ret'.failed THEN DefaultFacts(k)
                    ELSE FetchedFacts(k, ret'.repo_name)
          /\ info_tasks'[ret'.repo_name] = InfoTask("done", ret'.value)
          /\ \A m \in DOMAIN info_tasks \ {ret'.repo_name} :
                info_tasks'[m] = info_tasks[m]
    /\ (info_tasks # NoTasks /\ info_tasks' = NoTasks) =>
          /\ DOMAIN ctx'[1].repo_info_dict = DOMAIN info_tasks
          /\ \A n \in DOMAIN info_tasks :
                ctx'[1].repo_info_dict[n] = info_tasks[n].info

\* C22: batch enrichment has no raising outcome and its dictionary has an
\* entry for every requested name; in the info of a repository each of the
\* four facts is what the source host holds when its own fetch succeeded and
\* its default (empty list, false) when its own fetch failed, whatever became
\* of the other three, and the infos of the other repositories stay as they
\* are.
C22_FactsIndependent == [][C22_Step]_vars

\* C22 witness: a batch of two repositories has returned its dictionary; the
\* repository that returned last lost its contributors and its quality-gate
\* search and kept its file flags, and the other repository kept its
\* contributors.
C22_Witness ==
    /\ info_tasks = NoTasks
    /\ DOMAIN ctx[1].repo_info_dict = InfoRepos
    /\ ret.op = "get_repository_complete_info"
    /\ ret.repo_name = "c"
    /\ ret.failed = {"contributors", "sonar"}
    /\ ctx[1].repo_info_dict["c"].contributors = <<>>
    /\ ctx[1].repo_info_dict["c"].have_datadog
    /\ ctx[1].repo_info_dict["c"].have_github_actions
    /\ ctx[1].repo_info_dict["a"].contributors = <<"ana">>

\* C23 (as stated): every source whose failed fetch a sync call degraded to
\* the empty list is named in a record the call wrote.
C23_DegradedLeavesTrace ==
    \A p \in Tasks :
        (IsSync(p) /\ Ended(p) = "sync_returned") =>
            \A s \in ctx[p].failed : s \in ErrorRecords(ctx[p].failed)

\* The documents a step has written: those inserted at the end of the
\* collection and the one replaced or upserted by its name.
Written(p) ==
    IF pc[p] = "writing"
    THEN {store'[i] : i \in (Len(store) + 1)..Len(store')}
    ELSE IF pc[p] = "single_writing" /\ pc'[p] \in {"created", "updated"}
    THEN {store'[i] : i \in {j \in DOMAIN store' : store'[j].name = ctx[p].repo_name}}
    ELSE {}

C25_Step ==
    \A p \in Tasks :
        /\ EventsOf(log'[p], "sonarcloud") = <<>>
        /\ pc'[p] = "failed" => ctx'[p].error # "sonarcloud"
        /\ ~sonar => \A doc \in Written(p) :
                         QualityPlatformStatus(doc) = Some(FALSE)

\* C25 (as stated): with no quality platform configured, sync and
\* sync_single_repository make no quality-platform call, do not fail because
\* of it, and every document they write carries the quality-platform status
\* inactive.
C25_UnconfiguredWritesInactive == [][C25_Step]_vars

\* With no quality platform configured no quality-platform call is made, no
\* call fails because of it, and no written document carries a
\* quality-platform status.
C25_UnconfiguredWritesNoStatus ==
    [][\A p \in Tasks :
          /\ EventsOf(log'[p], "sonarcloud") = <<>>
          /\ pc'[p] = "failed" => ctx'[p].error # "sonarcloud"
          /\ \A doc \in Written(p) : QualityPlatformStatus(doc) = None]_vars

\* Every result a sync call has returned carries one of the two tags:
\* `no_changes` when its additions and removals are both empty, `updated`
\* otherwise.
StatusTags(no_changes, updated) ==
    \A p \in Tasks :
        (IsSync(p) /\ Ended(p) = "sync_returned") =>
            LET r == ctx[p].result
                empty == r.newRepositories = <<>> /\ r.deletedRepositories = <<>>
            IN /\ r.status \in {no_changes, updated}
               /\ r.status = no_changes <=> empty
               /\ r.status = updated <=> ~empty

\* C26 (as stated): the status tag of every result of sync is exactly
\* "no changes" or exactly "updated".
C26_LowerCaseTags == StatusTags("no changes", "updated")

\* C26: the status tag of every result of sync is exactly "No changes" or
\* exactly "Updated": "No changes" when both additions and removals are
\* empty and "Updated" otherwise.
C26_StatusTags == StatusTags("No changes", "Updated")

\* C26 witness: a sync call has returned "Updated" with removals only.
C26_Witness ==
    \E p \in Tasks :
        /\ IsSync(p) /\ pc[p] = "done"
        /\ ctx[p].result.status = "Updated"
        /\ ctx[p].result.newRepositories = <<>>
        /\ ctx[p].result.deletedRepositories # <<>>

\* The elements of a list at the positions S, in the order of the list.
Restrict(full, S) ==
    LET F[i \in 0..Len(full)] ==
            IF i = 0 THEN <<>>
            ELSE IF i \in S THEN Append(F[i - 1], full[i]) ELSE F[i - 1]
    IN F[Len(full)]

\* `sub` lists elements of `full` in the order `full` lists them.
InOrderOf(sub, full) == \E S \in SUBSET DOMAIN full : sub = Restrict(full, S)

\* C27: the additions a sync call returns are in the order the source host
\* enumerated them and its removals in the order the store enumerated them
\* (the lists the call obtained, which are the host's and the store's own
\* when their fetch succeeded).
C27_OrderPreserved ==
    \A p \in Tasks :
        (IsSync(p) /\ Ended(p) = "sync_returned") =>
            LET r == ctx[p].result
            IN /\ InOrderOf(r.newRepositories, ctx[p].repositories_in_github)
               /\ InOrderOf(r.deletedRepositories, ctx[p].repositories_in_db)
               /\ "github" \notin ctx[p].failed =>
                     InOrderOf(r.newRepositories, ghRemote)
               /\ "db" \notin ctx[p].failed =>
                     InOrderOf(r.deletedRepositories, NamesOf(ctx[p].store_before))

\* C27 witness: a sync call whose fetches succeeded has returned two
\* additions, in the order the source host lists them, and a removal.
C27_Witness ==
    \E p \in Tasks :
        /\ IsSync(p) /\ pc[p] = "done"
        /\ ctx[p].failed = {}
        /\ ghRemote = <<"a", "c">>
        /\ ctx[p].result.newRepositories = <<"a", "c">>
        /\ ctx[p].result.deletedRepositories = <<"b">>

\* A task's insert of a batch adds one document for every name of the batch,
\* whether or not the collection already holds a document of that name, and
\* a task is at its insert whatever the other task is doing.
C28_Step ==
    \A p \in Tasks :
        (pc[p] = "writing" /\ pc'[p] \notin {"writing", "failed"}) =>
            LET batch == Batch(ctx[p].new_repos, ctx[p].i, ctx[p].batch_size)
            IN \A n \in Names :
                  CountName(store', n) =
                      CountName(store, n) + (IF Contains(batch, n) THEN 1 ELSE 0)

\* C28: no lock and no upsert stands between two overlapping sync calls and
\* a second record of a name: each call inserts the additions it computed,
\* adding one record per name to whatever the store holds by then.
C28_InsertsRegardless == [][C28_Step]_vars

\* C28 witness: two overlapping sync calls whose fetches all succeeded have
\* computed the same additions from the same store, both have inserted them
\* and returned, and the store holds two records of one name.
C28_Witness ==
    /\ \A p \in Tasks : IsSync(p) /\ pc[p] = "done" /\ ctx[p].failed = {}
    /\ ctx[1].store_before = ctx[2].store_before
    /\ ctx[1].new_repos = ctx[2].new_repos
    /\ \E n \in Range(ctx[1].new_repos) :
          /\ CountName(ctx[1].store_before, n) = 0
          /\ CountName(store, n) = 2

\* The listings return the first `length` documents of the collection, or
\* their names.
ListsUpTo(length) ==
    LET n == Min(Len(store), length)
    IN /\ (ret.op = "get_all" /\ ret.ok) =>
             /\ ret.value.repositories = SubSeq(store, 1, n)
             /\ ret.value.count = n
       /\ (ret.op = "get_all_name_repositories" /\ ret.ok) =>
             ret.value = NamesOf(SubSeq(store, 1, n))

\* C29 (as stated): get_all returns every document of the collection and
\* get_all_name_repositories the name of every document, whatever the number
\* of documents.
C29_ListsEverything == ListsUpTo(Len(store))

\* The listings return the first ToListLength documents.
C29_ListsFirstThousand == ListsUpTo(ToListLength)

\* The state of sync's state machine a task is in; the pause between two
\* chunks belongs to the chunk just written.
SyncState(at) == IF at = "pausing" THEN "writing" ELSE at

SyncTerminal == {"short_circuit_done", "done", "failed"}

\* The moves of a sync call: fetching, diffing, then the short circuit or the
\* deletions (none when there is no removal) followed by enriching and
\* writing in turn; a store write that raises ends the call as failed.
C30_Order ==
    \A p \in Tasks :
        (/\ IsSync(p) /\ ctx'[p].op = "sync"
         /\ SyncState(pc'[p]) # SyncState(pc[p])
         /\ pc[p] \notin SyncTerminal) =>
            LET from == SyncState(pc[p])
                to == SyncState(pc'[p])
            IN CASE from = "fetching" -> to = "diffing"
                 [] from = "diffing" ->
                        \/ to \in {"short_circuit_done", "deleting"}
                        \/ to = "enriching" /\ ctx'[p].delete_repos = <<>>
                 [] from = "deleting" -> to \in {"enriching", "done", "failed"}
                 [] from = "enriching" -> to = "writing"
                 [] from = "writing" -> to \in {"enriching", "done", "failed"}
                 [] OTHER -> FALSE

\* C30: every sync call whose awaited calls all return or raise reaches
\* short-circuit-done, done or failed, and moves through its states only in
\* the order fetching, diffing, then short-circuit-done or deleting followed
\* by enriching and writing chunk by chunk.
C30_TerminatesInOrder ==
    /\ [][C30_Order]_vars
    /\ \A p \in {1} :
          (IsSync(p) /\ pc[p] = "fetching") ~> (IsSync(p) /\ pc[p] \in SyncTerminal)

\* C30 witness: a sync call has deleted a record, enriched and written two
\* chunks with a pause in between, and is done.
C30_Witness ==
    \E p \in Tasks :
        /\ IsSync(p) /\ pc[p] = "done"
        /\ Len(EventsOf(log[p], "delete_one")) = 1
        /\ Len(EventsOf(log[p], "insert_many")) = 2
        /\ Len(EventsOf(log[p], "sleep")) = 1

C32_Step(quality(_)) ==
    \A p \in Tasks :
        (IsSync(p) /\ pc[p] = "writing" /\ Len(store') > Len(store)) =>
            LET c == ctx[p]
                batch == Batch(c.new_repos, c.i, c.batch_size)
            IN /\ Len(store') = Len(store) + Len(batch)
               /\ "backstage" \in c.failed => c.backstage_repos = <<>>
               /\ \A idx \in DOMAIN batch :
                     LET doc == store'[Len(store) + idx]
                     IN /\ doc.name = batch[idx]
                        /\ doc.backstage = Contains(c.backstage_repos, batch[idx])
                        /\ doc.github =
                               InfoOf(c.repo_info_dict, batch[idx]).have_github_actions
                        /\ QualityPlatformStatus(doc) =
                               quality(c.sonarcloud_results[idx])

\* C32 (as stated): every record sync inserts has catalog status active iff
\* its name is in the catalog list fetched at the start of the call (empty if
\* that fetch failed), source-host status equal to the name's CI result and
\* quality-platform status equal to the quality platform's answer for the
\* name (false if that check failed).
C32_InsertedStatuses == [][C32_Step(Some)]_vars

\* The same statuses with the inserted record carrying no quality-platform
\* status.
C32_InsertedWithoutQuality == [][C32_Step(LAMBDA answer : None)]_vars

\* The list the source host answers a get_repositories call with when the
\* call succeeds: the cached list while it is fresh, the remote list otherwise.
HostAnswer ==
    LET cached_data == get_cached_data(cache, RepositoriesKey, now)
    IN IF cached_data # None THEN cached_data.val ELSE ghRemote

\* Task p's call has ended in the error `fetch` raised, with no result
\* dictionary and the store as the step found it.
Propagated(p, fetch) ==
    /\ pc'[p] = "failed"
    /\ ctx'[p].error = fetch
    /\ ctx'[p].result = NoResult
    /\ Ended(p)' = "other"
    /\ store' = store

\* C33: in sync_single_repository a failed source-host list fetch or catalog
\* list fetch ends the call in that error with the store unchanged: the call
\* goes on, or reports `not found`, only with the list the fetch obtained.
C33_FetchFailurePropagates ==
    [][\A p \in Tasks :
          IsSyncOne(p) =>
              /\ (pc[p] = "validating" /\ pc'[p] # "validating") =>
                    \/ Propagated(p, "get_repositories")
                    \/ /\ pc'[p] \in {"not_found", "single_enriching"}
                       /\ ctx'[p].repositories_in_github = HostAnswer
                       /\ pc'[p] = "not_found" <=>
                              ~Contains(HostAnswer, ctx[p].repo_name)
                       /\ store' = store
              /\ (pc[p] = "single_enriching" /\ pc'[p] # "single_enriching") =>
                    \/ Propagated(p, "backstage_get_repositories")
                    \/ /\ pc'[p] = "single_writing"
                       /\ \E targets \in CatalogTargets :
                              ctx'[p].backstage_repos = Dedup(targets)
                       /\ store' = store
              /\ (pc'[p] = "failed" /\ ctx'[p].error \in
                      {"get_repositories", "backstage_get_repositories"}) =>
                    store' = ctx'[p].store_before]_vars

\* C33 witness: a sync_single_repository call for a name the source host
\* lists has ended in the error of the catalog fetch, the store holding what
\* it held when the call began.
C33_Witness ==
    /\ IsSyncOne(1)
    /\ pc[1] = "failed"
    /\ ctx[1].error = "backstage_get_repositories"
    /\ Contains(ctx[1].repositories_in_github, ctx[1].repo_name)
    /\ store # <<>>
    /\ store = ctx[1].store_before

\* The documents of name n in a collection, in their order.
DocumentsOf(s, n) == SelectSeq(s, LAMBDA doc : doc.name = n)

\* The documents of name n the step found are there after it, unchanged and
\* first among the documents of that name.
Kept(n) ==
    /\ Len(DocumentsOf(store', n)) >= Len(DocumentsOf(store, n))
    /\ SubSeq(DocumentsOf(store', n), 1, Len(DocumentsOf(store, n))) =
           DocumentsOf(store, n)

\* Task p is the handler that takes the step.
Steps(p) == pc'[p] # pc[p] \/ ctx'[p] # ctx[p] \/ log'[p] # log[p]

Resyncs(p) ==
    /\ IsSyncOne(p)
    /\ pc[p] = "single_writing"
    /\ pc'[p] = "updated"
    /\ Len(DocumentsOf(store, ctx[p].repo_name)) = 1

\* C35 (as stated): sync_single_repository on a stored name refreshes the
\* document in place: its name and its creation timestamp stay, its
\* enrichment fields are those just fetched and its last-updated timestamp is
\* set.
C35_RefreshedInPlace ==
    [][\A p \in Tasks :
          Resyncs(p) =>
              LET old == DocumentsOf(store, ctx[p].repo_name)[1]
                  new == DocumentsOf(store', ctx[p].repo_name)[1]
              IN /\ Len(DocumentsOf(store', ctx[p].repo_name)) = 1
                 /\ new.name = old.name
                 /\ new.created_at = old.created_at
                 /\ new.updated_at # None]_vars

\* What the step does: the stored document is replaced, at its place, by a
\* document built anew, whose creation timestamp is the time of the call and
\* whose last-updated timestamp is unset.
C35_ReplacedWhole ==
    [][\A p \in Tasks :
          Resyncs(p) =>
              LET old == DocumentsOf(store, ctx[p].repo_name)[1]
                  new == DocumentsOf(store', ctx[p].repo_name)[1]
              IN /\ Len(DocumentsOf(store', ctx[p].repo_name)) = 1
                 /\ NamesOf(store') = NamesOf(store)
                 /\ new.name = old.name
                 /\ new.github =
                        InfoOf(ctx[p].repo_info_dict, old.name).have_github_actions
                 /\ new.backstage = Contains(ctx[p].backstage_repos, old.name)
                 /\ new.created_at = now
                 /\ new.updated_at = None]_vars

\* C36 (as stated): when a sync call whose three fetches and whose writes
\* all succeeded has returned `updated`, the names the collection holds are
\* the names of the source-host list the call used.
C36_MirrorsSourceHost ==
    \A p \in Tasks :
        (/\ IsSync(p)
         /\ pc[p] = "done"
         /\ ctx[p].failed = {}
         /\ ctx[p].result = Updated(ctx[p])) =>
            Range(NamesOf(store)) = Range(ctx[p].repositories_in_github)

\* The same for a call that found at most ToListLength documents in the
\* collection.
C36_MirrorsUpToThousand ==
    \A p \in Tasks :
        (/\ IsSync(p)
         /\ pc[p] = "done"
         /\ ctx[p].failed = {}
         /\ ctx[p].result = Updated(ctx[p])
         /\ Len(ctx[p].store_before) <= ToListLength) =>
            Range(NamesOf(store)) = Range(ctx[p].repositories_in_github)

\* A file-content lookup that found the fresh entry an earlier completed
\* lookup of the same repository and path left, the entry holding a value
\* that satisfies `covered`, was answered from the cache: it asked the source
\* host nothing and changed no entry.
ServedFromCache(covered(_)) ==
    (/\ ret.op = "get_repository_file_content"
     /\ ret.found = "fresh"
     /\ covered(ret.stored)) =>
        /\ ret.hit
        /\ ret.ok
        /\ ret.key \in DOMAIN file_cache
        /\ file_cache[ret.key].data = ret.stored

\* C37 (as stated): once a file-content lookup of a repository and path has
\* completed, with a content or with the answer `file absent`, every further
\* lookup of that repository and path before the entry expires is answered
\* from the cache and makes no remote call.
C37_CompletedLookupIsCached == ServedFromCache(LAMBDA v : TRUE)

\* The same for the lookups that completed with a content.
C37_ContentIsCached == ServedFromCache(LAMBDA v : v # None)

\* The files whose fetch raised in the check_repository_files_batch call the
\* step makes: those asked of the source host, their content not being
\* cached, whose request failed.
RaisedIn ==
    IF ret'.op = "check_repository_files_batch" /\ ~ret'.hit
    THEN {f \in ret'.failing :
             get_cached_data(file_cache, get_cache_key("file_content", FilesRepo, f),
                             now) = None}
    ELSE {}

\* The entries of the files whose fetch raised are as the step found them.
FileEntriesUntouched ==
    \A f \in RaisedIn :
        LET k == get_cache_key("file_content", FilesRepo, f)
        IN /\ k \in DOMAIN file_cache' <=> k \in DOMAIN file_cache
           /\ k \in DOMAIN file_cache => file_cache'[k] = file_cache[k]

\* C38 (as stated): a check_repository_files_batch call in which a fetch
\* raised creates or changes no cache entry for what that fetch was to
\* decide: neither the entry of the file nor the entry of the derived facts,
\* so that the next call asks the source host again.
C38_NothingCachedOnFailure ==
    [][RaisedIn # {} => (FileEntriesUntouched /\ cache' = cache)]_vars

\* What holds: the entry of a file whose fetch raised is neither created nor
\* changed, while the facts derived with that file counted as absent are
\* cached under the key of the batch.
C38_DegradedFactsCached ==
    [][RaisedIn # {} =>
          /\ FileEntriesUntouched
          /\ get_cached_data(cache', get_cache_key("files_batch", FilesRepo, ""), now) =
                 Some(ret'.value)]_vars

====
